---- MODULE Spec2Model ----
(***************************************************************************)
(* Document intelligence pipeline of the SGD AI service: the rule-based    *)
(* classifier (classification_service.py) and the process_document         *)
(* orchestration (ai-service/main.py) with its collaborators, the document *)
(* store of the API service and the Weaviate vector store.                 *)
(*                                                                         *)
(* Strings the classifier inspects are sequences of one-character strings, *)
(* so that lower-casing and substring search are computed, not assumed.    *)
(***************************************************************************)
EXTENDS Naturals, Integers, Sequences, FiniteSets, TLC

VARIABLES
    classifier,       \* ClassificationService.classifier: None or <<the loaded table>>
    c_title,          \* title argument of the classify_document call being prepared
    c_text,           \* text argument of the classify_document call being prepared
    c_frags,          \* number of fragments the text argument is made of
    c_result,         \* <<>> before the call, <<outcome>> after it
    c_inits,          \* number of initialize() calls that have completed
    docs,             \* document store: document id -> record (models.Document)
    weaviate,         \* vector store: sequence of created "Document" objects
    pc,               \* position of each process_document run
    document_id,      \* request.document_id of each run (0: no request yet)
    document,         \* the run's fetched document (doc_response.json())
    file_content,     \* the run's downloaded file content
    extracted_text,   \* the run's extracted text
    nlp_analysis,     \* the run's NLPAnalysis.entities
    classification,   \* the run's ClassificationResult
    summary,          \* the run's summary
    exc,              \* the exception caught by the run's except clause (str(e))
    response,         \* what the run answered its caller
    trace,            \* per run: the external calls it issued, with their outcomes
    c_log,            \* the classify_document calls that returned before the current one
    chat_pc,          \* position of the /rag/chat request being served
    chat_turns,       \* number of /rag/chat requests received so far
    chat_request,     \* the ChatRequest being served
    search_query,     \* the vector-store query the turn executed (None: none executed)
    search_outcome,   \* what executing the search did: raise, nodata, null or a ranking
    relevant_docs,    \* relevant_docs of the turn
    llm_context,      \* the context the generative model was invoked with (None: not yet)
    response_text,    \* response_text of the turn
    chat_response,    \* what the turn answered its caller
    issued_ids,       \* conversation ids issued by the responses so far
    pdf_pages,        \* the PDF given to _extract_from_pdf: its pages, in order
    pdf_pc,           \* position of the _extract_from_pdf call
    page_num,         \* pages of the PDF handled so far
    pdf_text,         \* the local `text` of _extract_from_pdf
    ocr_calls,        \* the pages _ocr_image was invoked for, in call order
    pdf_result,       \* <<>> before the call returns, <<returned string>> after
    ex_pc,            \* position of the extract_text call
    ex_request,       \* content type and payload given to extract_text
    ex_result,        \* <<>> before extract_text ends, <<outcome>> after
    tmp_files,        \* temporary files of _extract_with_tika present on disk
    sum_pc,           \* position of the generate_summary call
    sum_text,         \* the text given to generate_summary
    sum_model_calls,  \* the calls of the generative model this call made
    sum_result,       \* <<>> before generate_summary ends, <<outcome>> after
    sum_log,          \* the outcomes of the earlier generate_summary calls
    an_pc,            \* position of the analyze_text call
    an_doc,           \* the parsed document: entity spans and tokens
    an_entities,      \* entities mapping built by _extract_entities
    an_keywords       \* keyword list built by _extract_keywords

cvars == <<classifier, c_title, c_text, c_frags, c_result, c_inits>>
pvars == <<docs, weaviate, pc, document_id, document, file_content, extracted_text,
           nlp_analysis, classification, summary, exc, response, trace>>
vars == <<classifier, c_title, c_text, c_frags, c_result, c_inits,
          docs, weaviate, pc, document_id, document, file_content, extracted_text,
          nlp_analysis, classification, summary, exc, response, trace,
          c_log,
          chat_pc, chat_turns, chat_request, search_query, search_outcome, relevant_docs,
          llm_context, response_text, chat_response, issued_ids,
          pdf_pages, pdf_pc, page_num, pdf_text, ocr_calls, pdf_result,
          ex_pc, ex_request, ex_result, tmp_files,
          sum_pc, sum_text, sum_model_calls, sum_result, sum_log,
          an_pc, an_doc, an_entities, an_keywords>>
lvars == <<c_log>>
hvars == <<chat_pc, chat_turns, chat_request, search_query, search_outcome, relevant_docs,
           llm_context, response_text, chat_response, issued_ids>>
ovars == <<pdf_pages, pdf_pc, page_num, pdf_text, ocr_calls, pdf_result>>
evars == <<ex_pc, ex_request, ex_result, tmp_files>>
nvars == <<sum_pc, sum_text, sum_model_calls, sum_result, sum_log,
           an_pc, an_doc, an_entities, an_keywords>>
\* what neither the single classify_document call nor process_document touches
xvars == <<lvars, hvars, ovars, evars, nvars>>

----------------------------------------------------------------------------
(* Bounds of the model. *)

\* fragments a classify_document text argument is assembled from
MaxFrags == 2
\* process_document requests served (possibly concurrently)
NumRuns == 2
\* initialize() calls on one ClassificationService
MaxInits == 2

----------------------------------------------------------------------------
(* Strings. *)

UpperChars == <<"A", "B", "C", "D", "E", "F", "G", "H", "I", "J", "K", "L", "M",
                "N", "O", "P", "Q", "R", "S", "T", "U", "V", "W", "X", "Y", "Z">>
LowerChars == <<"a", "b", "c", "d", "e", "f", "g", "h", "i", "j", "k", "l", "m",
                "n", "o", "p", "q", "r", "s", "t", "u", "v", "w", "x", "y", "z">>

(* A character is a one-character string: the printable ASCII characters
   (but the grave accent) and \t \n \f \r stand for themselves, every other
   one is named by its code point, "U+" and at least four hexadecimal
   digits. *)
AsciiChars ==
    <<
       " ", "!", "\"", "#", "$", "%", "&", "'", "(", ")", "*", "+", ",", "-", ".", "/",
       "0", "1", "2", "3", "4", "5", "6", "7", "8", "9", ":", ";", "<", "=", ">", "?",
       "@", "A", "B", "C", "D", "E", "F", "G", "H", "I", "J", "K", "L", "M", "N", "O",
       "P", "Q", "R", "S", "T", "U", "V", "W", "X", "Y", "Z", "[", "\\", "]", "^", "_",
       "U+0060", "a", "b", "c", "d", "e", "f", "g", "h", "i", "j", "k", "l", "m", "n", "o",
       "p", "q", "r", "s", "t", "u", "v", "w", "x", "y", "z", "{", "|", "}", "~" >>

HexDigits == <<"0", "1", "2", "3", "4", "5", "6", "7",
               "8", "9", "A", "B", "C", "D", "E", "F">>

RECURSIVE Hex(_, _)
Hex(n, width) ==
    IF n = 0 /\ width <= 0 THEN ""
    ELSE Hex(n \div 16, width - 1) \o HexDigits[(n % 16) + 1]

\* chr(n)
Chr(n) ==
    IF n >= 32 /\ n <= 126 THEN AsciiChars[n - 31]
    ELSE IF n = 9 THEN "\t"
    ELSE IF n = 10 THEN "\n"
    ELSE IF n = 12 THEN "\f"
    ELSE IF n = 13 THEN "\r"
    ELSE "U+" \o Hex(n, 4)

\* the characters of the code point ranges <<first, last>>
CharsOf(ranges) ==
    UNION {{Chr(n) : n \in ranges[k][1]..ranges[k][2]} : k \in 1..Len(ranges)}

(* The simple lower-case mappings of the interpreter's Unicode database
   (14.0.0), as <<first, last, step, delta>>: the code points first,
   first + step, ... up to last map to themselves plus delta. *)
LowerRanges ==
    <<
       <<65, 90, 1, 32>>, <<192, 214, 1, 32>>, <<216, 222, 1, 32>>, <<256, 302, 2, 1>>,
       <<306, 310, 2, 1>>, <<313, 327, 2, 1>>, <<330, 374, 2, 1>>, <<376, 376, 1, -121>>,
       <<377, 381, 2, 1>>, <<385, 385, 1, 210>>, <<386, 388, 2, 1>>, <<390, 390, 1, 206>>,
       <<391, 391, 1, 1>>, <<393, 394, 1, 205>>, <<395, 395, 1, 1>>, <<398, 398, 1, 79>>,
       <<399, 399, 1, 202>>, <<400, 400, 1, 203>>, <<401, 401, 1, 1>>, <<403, 403, 1, 205>>,
       <<404, 404, 1, 207>>, <<406, 406, 1, 211>>, <<407, 407, 1, 209>>, <<408, 408, 1, 1>>,
       <<412, 412, 1, 211>>, <<413, 413, 1, 213>>, <<415, 415, 1, 214>>, <<416, 420, 2, 1>>,
       <<422, 422, 1, 218>>, <<423, 423, 1, 1>>, <<425, 425, 1, 218>>, <<428, 428, 1, 1>>,
       <<430, 430, 1, 218>>, <<431, 431, 1, 1>>, <<433, 434, 1, 217>>, <<435, 437, 2, 1>>,
       <<439, 439, 1, 219>>, <<440, 440, 1, 1>>, <<444, 444, 1, 1>>, <<452, 452, 1, 2>>,
       <<453, 453, 1, 1>>, <<455, 455, 1, 2>>, <<456, 456, 1, 1>>, <<458, 458, 1, 2>>,
       <<459, 475, 2, 1>>, <<478, 494, 2, 1>>, <<497, 497, 1, 2>>, <<498, 500, 2, 1>>,
       <<502, 502, 1, -97>>, <<503, 503, 1, -56>>, <<504, 542, 2, 1>>, <<544, 544, 1, -130>>,
       <<546, 562, 2, 1>>, <<570, 570, 1, 10795>>, <<571, 571, 1, 1>>, <<573, 573, 1, -163>>,
       <<574, 574, 1, 10792>>, <<577, 577, 1, 1>>, <<579, 579, 1, -195>>, <<580, 580, 1, 69>>,
       <<581, 581, 1, 71>>, <<582, 590, 2, 1>>, <<880, 882, 2, 1>>, <<886, 886, 1, 1>>,
       <<895, 895, 1, 116>>, <<902, 902, 1, 38>>, <<904, 906, 1, 37>>, <<908, 908, 1, 64>>,
       <<910, 911, 1, 63>>, <<913, 929, 1, 32>>, <<931, 939, 1, 32>>, <<975, 975, 1, 8>>,
       <<984, 1006, 2, 1>>, <<1012, 1012, 1, -60>>, <<1015, 1015, 1, 1>>, <<1017, 1017, 1, -7>>,
       <<1018, 1018, 1, 1>>, <<1021, 1023, 1, -130>>, <<1024, 1039, 1, 80>>, <<1040, 1071, 1, 32>>,
       <<1120, 1152, 2, 1>>, <<1162, 1214, 2, 1>>, <<1216, 1216, 1, 15>>, <<1217, 1229, 2, 1>>,
       <<1232, 1326, 2, 1>>, <<1329, 1366, 1, 48>>, <<4256, 4293, 1, 7264>>, <<4295, 4295, 1, 7264>>,
       <<4301, 4301, 1, 7264>>, <<5024, 5103, 1, 38864>>, <<5104, 5109, 1, 8>>, <<7312, 7354, 1, -3008>>,
       <<7357, 7359, 1, -3008>>, <<7680, 7828, 2, 1>>, <<7838, 7838, 1, -7615>>, <<7840, 7934, 2, 1>>,
       <<7944, 7951, 1, -8>>, <<7960, 7965, 1, -8>>, <<7976, 7983, 1, -8>>, <<7992, 7999, 1, -8>>,
       <<8008, 8013, 1, -8>>, <<8025, 8031, 2, -8>>, <<8040, 8047, 1, -8>>, <<8072, 8079, 1, -8>>,
       <<8088, 8095, 1, -8>>, <<8104, 8111, 1, -8>>, <<8120, 8121, 1, -8>>, <<8122, 8123, 1, -74>>,
       <<8124, 8124, 1, -9>>, <<8136, 8139, 1, -86>>, <<8140, 8140, 1, -9>>, <<8152, 8153, 1, -8>>,
       <<8154, 8155, 1, -100>>, <<8168, 8169, 1, -8>>, <<8170, 8171, 1, -112>>, <<8172, 8172, 1, -7>>,
       <<8184, 8185, 1, -128>>, <<8186, 8187, 1, -126>>, <<8188, 8188, 1, -9>>, <<8486, 8486, 1, -7517>>,
       <<8490, 8490, 1, -8383>>, <<8491, 8491, 1, -8262>>, <<8498, 8498, 1, 28>>, <<8544, 8559, 1, 16>>,
       <<8579, 8579, 1, 1>>, <<9398, 9423, 1, 26>>, <<11264, 11311, 1, 48>>, <<11360, 11360, 1, 1>>,
       <<11362, 11362, 1, -10743>>, <<11363, 11363, 1, -3814>>, <<11364, 11364, 1, -10727>>, <<11367, 11371, 2, 1>>,
       <<11373, 11373, 1, -10780>>, <<11374, 11374, 1, -10749>>, <<11375, 11375, 1, -10783>>, <<11376, 11376, 1, -10782>>,
       <<11378, 11378, 1, 1>>, <<11381, 11381, 1, 1>>, <<11390, 11391, 1, -10815>>, <<11392, 11490, 2, 1>>,
       <<11499, 11501, 2, 1>>, <<11506, 11506, 1, 1>>, <<42560, 42604, 2, 1>>, <<42624, 42650, 2, 1>>,
       <<42786, 42798, 2, 1>>, <<42802, 42862, 2, 1>>, <<42873, 42875, 2, 1>>, <<42877, 42877, 1, -35332>>,
       <<42878, 42886, 2, 1>>, <<42891, 42891, 1, 1>>, <<42893, 42893, 1, -42280>>, <<42896, 42898, 2, 1>>,
       <<42902, 42920, 2, 1>>, <<42922, 42922, 1, -42308>>, <<42923, 42923, 1, -42319>>, <<42924, 42924, 1, -42315>>,
       <<42925, 42925, 1, -42305>>, <<42926, 42926, 1, -42308>>, <<42928, 42928, 1, -42258>>, <<42929, 42929, 1, -42282>>,
       <<42930, 42930, 1, -42261>>, <<42931, 42931, 1, 928>>, <<42932, 42946, 2, 1>>, <<42948, 42948, 1, -48>>,
       <<42949, 42949, 1, -42307>>, <<42950, 42950, 1, -35384>>, <<42951, 42953, 2, 1>>, <<42960, 42960, 1, 1>>,
       <<42966, 42968, 2, 1>>, <<42997, 42997, 1, 1>>, <<65313, 65338, 1, 32>>, <<66560, 66599, 1, 40>>,
       <<66736, 66771, 1, 40>>, <<66928, 66938, 1, 39>>, <<66940, 66954, 1, 39>>, <<66956, 66962, 1, 39>>,
       <<66964, 66965, 1, 39>>, <<68736, 68786, 1, 64>>, <<71840, 71871, 1, 32>>, <<93760, 93791, 1, 32>>,
       <<125184, 125217, 1, 34>> >>

\* the pairs <<character, its lower-case character>> of LowerRanges
LowerPairs ==
    UNION {{<<Chr(n), Chr(n + LowerRanges[k][4])>> :
                n \in {m \in LowerRanges[k][1]..LowerRanges[k][2] :
                           (m - LowerRanges[k][1]) % LowerRanges[k][3] = 0}} :
           k \in 1..Len(LowerRanges)}

\* the characters that have a lower-case mapping
LowerDomain == {p[1] : p \in LowerPairs}

\* the cased characters (Lu, Ll, Lt, Other_Uppercase, Other_Lowercase)
CasedRanges ==
    <<
       <<65, 90>>, <<97, 122>>, <<170, 170>>, <<181, 181>>, <<186, 186>>,
       <<192, 214>>, <<216, 246>>, <<248, 442>>, <<444, 447>>, <<452, 659>>,
       <<661, 696>>, <<704, 705>>, <<736, 740>>, <<837, 837>>, <<880, 883>>,
       <<886, 887>>, <<890, 893>>, <<895, 895>>, <<902, 902>>, <<904, 906>>,
       <<908, 908>>, <<910, 929>>, <<931, 1013>>, <<1015, 1153>>, <<1162, 1327>>,
       <<1329, 1366>>, <<1376, 1416>>, <<4256, 4293>>, <<4295, 4295>>, <<4301, 4301>>,
       <<4304, 4346>>, <<4349, 4351>>, <<5024, 5109>>, <<5112, 5117>>, <<7296, 7304>>,
       <<7312, 7354>>, <<7357, 7359>>, <<7424, 7615>>, <<7680, 7957>>, <<7960, 7965>>,
       <<7968, 8005>>, <<8008, 8013>>, <<8016, 8023>>, <<8025, 8025>>, <<8027, 8027>>,
       <<8029, 8029>>, <<8031, 8061>>, <<8064, 8116>>, <<8118, 8124>>, <<8126, 8126>>,
       <<8130, 8132>>, <<8134, 8140>>, <<8144, 8147>>, <<8150, 8155>>, <<8160, 8172>>,
       <<8178, 8180>>, <<8182, 8188>>, <<8305, 8305>>, <<8319, 8319>>, <<8336, 8348>>,
       <<8450, 8450>>, <<8455, 8455>>, <<8458, 8467>>, <<8469, 8469>>, <<8473, 8477>>,
       <<8484, 8484>>, <<8486, 8486>>, <<8488, 8488>>, <<8490, 8493>>, <<8495, 8500>>,
       <<8505, 8505>>, <<8508, 8511>>, <<8517, 8521>>, <<8526, 8526>>, <<8544, 8575>>,
       <<8579, 8580>>, <<9398, 9449>>, <<11264, 11492>>, <<11499, 11502>>, <<11506, 11507>>,
       <<11520, 11557>>, <<11559, 11559>>, <<11565, 11565>>, <<42560, 42605>>, <<42624, 42653>>,
       <<42786, 42887>>, <<42891, 42894>>, <<42896, 42954>>, <<42960, 42961>>, <<42963, 42963>>,
       <<42965, 42969>>, <<42997, 42998>>, <<43000, 43002>>, <<43824, 43866>>, <<43868, 43880>>,
       <<43888, 43967>>, <<64256, 64262>>, <<64275, 64279>>, <<65313, 65338>>, <<65345, 65370>>,
       <<66560, 66639>>, <<66736, 66771>>, <<66776, 66811>>, <<66928, 66938>>, <<66940, 66954>>,
       <<66956, 66962>>, <<66964, 66965>>, <<66967, 66977>>, <<66979, 66993>>, <<66995, 67001>>,
       <<67003, 67004>>, <<67456, 67456>>, <<67459, 67461>>, <<67463, 67504>>, <<67506, 67514>>,
       <<68736, 68786>>, <<68800, 68850>>, <<71840, 71903>>, <<93760, 93823>>, <<119808, 119892>>,
       <<119894, 119964>>, <<119966, 119967>>, <<119970, 119970>>, <<119973, 119974>>, <<119977, 119980>>,
       <<119982, 119993>>, <<119995, 119995>>, <<119997, 120003>>, <<120005, 120069>>, <<120071, 120074>>,
       <<120077, 120084>>, <<120086, 120092>>, <<120094, 120121>>, <<120123, 120126>>, <<120128, 120132>>,
       <<120134, 120134>>, <<120138, 120144>>, <<120146, 120485>>, <<120488, 120512>>, <<120514, 120538>>,
       <<120540, 120570>>, <<120572, 120596>>, <<120598, 120628>>, <<120630, 120654>>, <<120656, 120686>>,
       <<120688, 120712>>, <<120714, 120744>>, <<120746, 120770>>, <<120772, 120779>>, <<122624, 122633>>,
       <<122635, 122654>>, <<125184, 125251>>, <<127280, 127305>>, <<127312, 127337>>, <<127344, 127369>> >>

Cased == CharsOf(CasedRanges)

\* the case-ignorable characters (Mn, Me, Cf, Lm, Sk and the word-internal
\* punctuation)
CaseIgnorableRanges ==
    <<
       <<39, 39>>, <<46, 46>>, <<58, 58>>, <<94, 94>>, <<96, 96>>,
       <<168, 168>>, <<173, 173>>, <<175, 175>>, <<180, 180>>, <<183, 184>>,
       <<688, 879>>, <<884, 885>>, <<890, 890>>, <<900, 901>>, <<903, 903>>,
       <<1155, 1161>>, <<1369, 1369>>, <<1375, 1375>>, <<1425, 1469>>, <<1471, 1471>>,
       <<1473, 1474>>, <<1476, 1477>>, <<1479, 1479>>, <<1524, 1524>>, <<1536, 1541>>,
       <<1552, 1562>>, <<1564, 1564>>, <<1600, 1600>>, <<1611, 1631>>, <<1648, 1648>>,
       <<1750, 1757>>, <<1759, 1768>>, <<1770, 1773>>, <<1807, 1807>>, <<1809, 1809>>,
       <<1840, 1866>>, <<1958, 1968>>, <<2027, 2037>>, <<2042, 2042>>, <<2045, 2045>>,
       <<2070, 2093>>, <<2137, 2139>>, <<2184, 2184>>, <<2192, 2193>>, <<2200, 2207>>,
       <<2249, 2306>>, <<2362, 2362>>, <<2364, 2364>>, <<2369, 2376>>, <<2381, 2381>>,
       <<2385, 2391>>, <<2402, 2403>>, <<2417, 2417>>, <<2433, 2433>>, <<2492, 2492>>,
       <<2497, 2500>>, <<2509, 2509>>, <<2530, 2531>>, <<2558, 2558>>, <<2561, 2562>>,
       <<2620, 2620>>, <<2625, 2626>>, <<2631, 2632>>, <<2635, 2637>>, <<2641, 2641>>,
       <<2672, 2673>>, <<2677, 2677>>, <<2689, 2690>>, <<2748, 2748>>, <<2753, 2757>>,
       <<2759, 2760>>, <<2765, 2765>>, <<2786, 2787>>, <<2810, 2815>>, <<2817, 2817>>,
       <<2876, 2876>>, <<2879, 2879>>, <<2881, 2884>>, <<2893, 2893>>, <<2901, 2902>>,
       <<2914, 2915>>, <<2946, 2946>>, <<3008, 3008>>, <<3021, 3021>>, <<3072, 3072>>,
       <<3076, 3076>>, <<3132, 3132>>, <<3134, 3136>>, <<3142, 3144>>, <<3146, 3149>>,
       <<3157, 3158>>, <<3170, 3171>>, <<3201, 3201>>, <<3260, 3260>>, <<3263, 3263>>,
       <<3270, 3270>>, <<3276, 3277>>, <<3298, 3299>>, <<3328, 3329>>, <<3387, 3388>>,
       <<3393, 3396>>, <<3405, 3405>>, <<3426, 3427>>, <<3457, 3457>>, <<3530, 3530>>,
       <<3538, 3540>>, <<3542, 3542>>, <<3633, 3633>>, <<3636, 3642>>, <<3654, 3662>>,
       <<3761, 3761>>, <<3764, 3772>>, <<3782, 3782>>, <<3784, 3789>>, <<3864, 3865>>,
       <<3893, 3893>>, <<3895, 3895>>, <<3897, 3897>>, <<3953, 3966>>, <<3968, 3972>>,
       <<3974, 3975>>, <<3981, 3991>>, <<3993, 4028>>, <<4038, 4038>>, <<4141, 4144>>,
       <<4146, 4151>>, <<4153, 4154>>, <<4157, 4158>>, <<4184, 4185>>, <<4190, 4192>>,
       <<4209, 4212>>, <<4226, 4226>>, <<4229, 4230>>, <<4237, 4237>>, <<4253, 4253>>,
       <<4348, 4348>>, <<4957, 4959>>, <<5906, 5908>>, <<5938, 5939>>, <<5970, 5971>>,
       <<6002, 6003>>, <<6068, 6069>>, <<6071, 6077>>, <<6086, 6086>>, <<6089, 6099>>,
       <<6103, 6103>>, <<6109, 6109>>, <<6155, 6159>>, <<6211, 6211>>, <<6277, 6278>>,
       <<6313, 6313>>, <<6432, 6434>>, <<6439, 6440>>, <<6450, 6450>>, <<6457, 6459>>,
       <<6679, 6680>>, <<6683, 6683>>, <<6742, 6742>>, <<6744, 6750>>, <<6752, 6752>>,
       <<6754, 6754>>, <<6757, 6764>>, <<6771, 6780>>, <<6783, 6783>>, <<6823, 6823>>,
       <<6832, 6862>>, <<6912, 6915>>, <<6964, 6964>>, <<6966, 6970>>, <<6972, 6972>>,
       <<6978, 6978>>, <<7019, 7027>>, <<7040, 7041>>, <<7074, 7077>>, <<7080, 7081>>,
       <<7083, 7085>>, <<7142, 7142>>, <<7144, 7145>>, <<7149, 7149>>, <<7151, 7153>>,
       <<7212, 7219>>, <<7222, 7223>>, <<7288, 7293>>, <<7376, 7378>>, <<7380, 7392>>,
       <<7394, 7400>>, <<7405, 7405>>, <<7412, 7412>>, <<7416, 7417>>, <<7468, 7530>>,
       <<7544, 7544>>, <<7579, 7679>>, <<8125, 8125>>, <<8127, 8129>>, <<8141, 8143>>,
       <<8157, 8159>>, <<8173, 8175>>, <<8189, 8190>>, <<8203, 8207>>, <<8216, 8217>>,
       <<8228, 8228>>, <<8231, 8231>>, <<8234, 8238>>, <<8288, 8292>>, <<8294, 8303>>,
       <<8305, 8305>>, <<8319, 8319>>, <<8336, 8348>>, <<8400, 8432>>, <<11388, 11389>>,
       <<11503, 11505>>, <<11631, 11631>>, <<11647, 11647>>, <<11744, 11775>>, <<11823, 11823>>,
       <<12293, 12293>>, <<12330, 12333>>, <<12337, 12341>>, <<12347, 12347>>, <<12441, 12446>>,
       <<12540, 12542>>, <<40981, 40981>>, <<42232, 42237>>, <<42508, 42508>>, <<42607, 42610>>,
       <<42612, 42621>>, <<42623, 42623>>, <<42652, 42655>>, <<42736, 42737>>, <<42752, 42785>>,
       <<42864, 42864>>, <<42888, 42890>>, <<42994, 42996>>, <<43000, 43001>>, <<43010, 43010>>,
       <<43014, 43014>>, <<43019, 43019>>, <<43045, 43046>>, <<43052, 43052>>, <<43204, 43205>>,
       <<43232, 43249>>, <<43263, 43263>>, <<43302, 43309>>, <<43335, 43345>>, <<43392, 43394>>,
       <<43443, 43443>>, <<43446, 43449>>, <<43452, 43453>>, <<43471, 43471>>, <<43493, 43494>>,
       <<43561, 43566>>, <<43569, 43570>>, <<43573, 43574>>, <<43587, 43587>>, <<43596, 43596>>,
       <<43632, 43632>>, <<43644, 43644>>, <<43696, 43696>>, <<43698, 43700>>, <<43703, 43704>>,
       <<43710, 43711>>, <<43713, 43713>>, <<43741, 43741>>, <<43756, 43757>>, <<43763, 43764>>,
       <<43766, 43766>>, <<43867, 43871>>, <<43881, 43883>>, <<44005, 44005>>, <<44008, 44008>>,
       <<44013, 44013>>, <<64286, 64286>>, <<64434, 64450>>, <<65024, 65039>>, <<65043, 65043>>,
       <<65056, 65071>>, <<65106, 65106>>, <<65109, 65109>>, <<65279, 65279>>, <<65287, 65287>>,
       <<65294, 65294>>, <<65306, 65306>>, <<65342, 65342>>, <<65344, 65344>>, <<65392, 65392>>,
       <<65438, 65439>>, <<65507, 65507>>, <<65529, 65531>>, <<66045, 66045>>, <<66272, 66272>>,
       <<66422, 66426>>, <<67456, 67461>>, <<67463, 67504>>, <<67506, 67514>>, <<68097, 68099>>,
       <<68101, 68102>>, <<68108, 68111>>, <<68152, 68154>>, <<68159, 68159>>, <<68325, 68326>>,
       <<68900, 68903>>, <<69291, 69292>>, <<69446, 69456>>, <<69506, 69509>>, <<69633, 69633>>,
       <<69688, 69702>>, <<69744, 69744>>, <<69747, 69748>>, <<69759, 69761>>, <<69811, 69814>>,
       <<69817, 69818>>, <<69821, 69821>>, <<69826, 69826>>, <<69837, 69837>>, <<69888, 69890>>,
       <<69927, 69931>>, <<69933, 69940>>, <<70003, 70003>>, <<70016, 70017>>, <<70070, 70078>>,
       <<70089, 70092>>, <<70095, 70095>>, <<70191, 70193>>, <<70196, 70196>>, <<70198, 70199>>,
       <<70206, 70206>>, <<70367, 70367>>, <<70371, 70378>>, <<70400, 70401>>, <<70459, 70460>>,
       <<70464, 70464>>, <<70502, 70508>>, <<70512, 70516>>, <<70712, 70719>>, <<70722, 70724>>,
       <<70726, 70726>>, <<70750, 70750>>, <<70835, 70840>>, <<70842, 70842>>, <<70847, 70848>>,
       <<70850, 70851>>, <<71090, 71093>>, <<71100, 71101>>, <<71103, 71104>>, <<71132, 71133>>,
       <<71219, 71226>>, <<71229, 71229>>, <<71231, 71232>>, <<71339, 71339>>, <<71341, 71341>>,
       <<71344, 71349>>, <<71351, 71351>>, <<71453, 71455>>, <<71458, 71461>>, <<71463, 71467>>,
       <<71727, 71735>>, <<71737, 71738>>, <<71995, 71996>>, <<71998, 71998>>, <<72003, 72003>>,
       <<72148, 72151>>, <<72154, 72155>>, <<72160, 72160>>, <<72193, 72202>>, <<72243, 72248>>,
       <<72251, 72254>>, <<72263, 72263>>, <<72273, 72278>>, <<72281, 72283>>, <<72330, 72342>>,
       <<72344, 72345>>, <<72752, 72758>>, <<72760, 72765>>, <<72767, 72767>>, <<72850, 72871>>,
       <<72874, 72880>>, <<72882, 72883>>, <<72885, 72886>>, <<73009, 73014>>, <<73018, 73018>>,
       <<73020, 73021>>, <<73023, 73029>>, <<73031, 73031>>, <<73104, 73105>>, <<73109, 73109>>,
       <<73111, 73111>>, <<73459, 73460>>, <<78896, 78904>>, <<92912, 92916>>, <<92976, 92982>>,
       <<92992, 92995>>, <<94031, 94031>>, <<94095, 94111>>, <<94176, 94177>>, <<94179, 94180>>,
       <<110576, 110579>>, <<110581, 110587>>, <<110589, 110590>>, <<113821, 113822>>, <<113824, 113827>>,
       <<118528, 118573>>, <<118576, 118598>>, <<119143, 119145>>, <<119155, 119170>>, <<119173, 119179>>,
       <<119210, 119213>>, <<119362, 119364>>, <<121344, 121398>>, <<121403, 121452>>, <<121461, 121461>>,
       <<121476, 121476>>, <<121499, 121503>>, <<121505, 121519>>, <<122880, 122886>>, <<122888, 122904>>,
       <<122907, 122913>>, <<122915, 122916>>, <<122918, 122922>>, <<123184, 123197>>, <<123566, 123566>>,
       <<123628, 123631>>, <<125136, 125142>>, <<125252, 125259>>, <<127995, 127999>>, <<917505, 917505>>,
       <<917536, 917631>>, <<917760, 917999>> >>

CaseIgnorable == CharsOf(CaseIgnorableRanges)

\* str.lower() on one character: a string of one character, of two for
\* LATIN CAPITAL LETTER I WITH DOT ABOVE
LowerChar(c) ==
    IF \E i \in 1..Len(UpperChars) : UpperChars[i] = c
    THEN <<LowerChars[CHOOSE i \in 1..Len(UpperChars) : UpperChars[i] = c]>>
    ELSE IF c = "U+0130" THEN <<"i", "U+0307">>
    ELSE IF c \in LowerDomain
    THEN <<(CHOOSE p \in LowerPairs : p[1] = c)[2]>>
    ELSE <<c>>

(* GREEK CAPITAL LETTER SIGMA at position i of s is final: skipping the
   case-ignorable characters, a cased character precedes it and none
   follows it. *)
FinalSigma(s, i) ==
    LET before == {j \in 1..(i - 1) : s[j] \notin CaseIgnorable}
        after == {j \in (i + 1)..Len(s) : s[j] \notin CaseIgnorable}
    IN  /\ before # {}
        /\ s[CHOOSE j \in before : \A k \in before : k <= j] \in Cased
        /\ \/ after = {}
           \/ s[CHOOSE j \in after : \A k \in after : j <= k] \notin Cased

\* the lower-case form of the character at position i of s
LowerAt(s, i) ==
    IF s[i] = "U+03A3"
    THEN (IF FinalSigma(s, i) THEN <<"U+03C2">> ELSE <<"U+03C3">>)
    ELSE LowerChar(s[i])

RECURSIVE Flatten(_)
Flatten(parts) ==
    IF parts = <<>> THEN <<>> ELSE Head(parts) \o Flatten(Tail(parts))

\* str.lower()
lower(s) ==
    LET parts == [i \in 1..Len(s) |-> LowerAt(s, i)]
    IN  IF \A i \in 1..Len(s) : Len(parts[i]) = 1
        THEN [i \in 1..Len(s) |-> parts[i][1]]
        ELSE Flatten(parts)

\* s[:n]
Take(s, n) == SubSeq(s, 1, IF Len(s) < n THEN Len(s) ELSE n)

\* Python's `keyword in text` on strings: substring search
Contains(keyword, text) ==
    \/ keyword = <<>>
    \/ \E i \in 1..(Len(text) - Len(keyword) + 1) :
           /\ text[i] = keyword[1]
           /\ \A j \in 2..Len(keyword) : text[i + j - 1] = keyword[j]

\* f"{title} {text}"
FormatCombined(title, text) == title \o <<" ">> \o text

----------------------------------------------------------------------------
(* ClassificationService (classification_service.py). *)

\* The category -> keywords table, in the dict's insertion order.
create_rule_based_classifier ==
    << [name |-> "contract", keywords |-> <<
         <<"c", "o", "n", "t", "r", "a", "c", "t">>,
         <<"a", "g", "r", "e", "e", "m", "e", "n", "t">>,
         <<"t", "e", "r", "m", "s">>,
         <<"c", "o", "n", "d", "i", "t", "i", "o", "n", "s">>,
         <<"l", "i", "a", "b", "i", "l", "i", "t", "y">>,
         <<"c", "l", "a", "u", "s", "e">> >>],
       [name |-> "invoice", keywords |-> <<
         <<"i", "n", "v", "o", "i", "c", "e">>,
         <<"b", "i", "l", "l">>,
         <<"p", "a", "y", "m", "e", "n", "t">>,
         <<"a", "m", "o", "u", "n", "t">>,
         <<"t", "o", "t", "a", "l">>,
         <<"d", "u", "e">>,
         <<"t", "a", "x">> >>],
       [name |-> "report", keywords |-> <<
         <<"r", "e", "p", "o", "r", "t">>,
         <<"a", "n", "a", "l", "y", "s", "i", "s">>,
         <<"s", "u", "m", "m", "a", "r", "y">>,
         <<"f", "i", "n", "d", "i", "n", "g", "s">>,
         <<"c", "o", "n", "c", "l", "u", "s", "i", "o", "n">>,
         <<"d", "a", "t", "a">> >>],
       [name |-> "correspondence", keywords |-> <<
         <<"d", "e", "a", "r">>,
         <<"s", "i", "n", "c", "e", "r", "e", "l", "y">>,
         <<"r", "e", "g", "a", "r", "d", "s">>,
         <<"l", "e", "t", "t", "e", "r">>,
         <<"e", "m", "a", "i", "l">>,
         <<"m", "e", "s", "s", "a", "g", "e">> >>],
       [name |-> "legal", keywords |-> <<
         <<"l", "e", "g", "a", "l">>,
         <<"l", "a", "w">>,
         <<"c", "o", "u", "r", "t">>,
         <<"j", "u", "d", "g", "e">>,
         <<"a", "t", "t", "o", "r", "n", "e", "y">>,
         <<"l", "a", "w", "s", "u", "i", "t">>,
         <<"l", "i", "t", "i", "g", "a", "t", "i", "o", "n">> >>],
       [name |-> "financial", keywords |-> <<
         <<"f", "i", "n", "a", "n", "c", "i", "a", "l">>,
         <<"b", "u", "d", "g", "e", "t">>,
         <<"r", "e", "v", "e", "n", "u", "e">>,
         <<"p", "r", "o", "f", "i", "t">>,
         <<"e", "x", "p", "e", "n", "s", "e">>,
         <<"c", "o", "s", "t">> >>],
       [name |-> "technical", keywords |-> <<
         <<"t", "e", "c", "h", "n", "i", "c", "a", "l">>,
         <<"s", "p", "e", "c", "i", "f", "i", "c", "a", "t", "i", "o", "n">>,
         <<"m", "a", "n", "u", "a", "l">>,
         <<"g", "u", "i", "d", "e">>,
         <<"p", "r", "o", "c", "e", "d", "u", "r", "e">> >>],
       [name |-> "administrative", keywords |-> <<
         <<"p", "o", "l", "i", "c", "y">>,
         <<"p", "r", "o", "c", "e", "d", "u", "r", "e">>,
         <<"m", "e", "m", "o">>,
         <<"n", "o", "t", "i", "c", "e">>,
         <<"a", "n", "n", "o", "u", "n", "c", "e", "m", "e", "n", "t">> >>],
       [name |-> "hr", keywords |-> <<
         <<"e", "m", "p", "l", "o", "y", "e", "e">>,
         <<"s", "a", "l", "a", "r", "y">>,
         <<"b", "e", "n", "e", "f", "i", "t", "s">>,
         <<"v", "a", "c", "a", "t", "i", "o", "n">>,
         <<"p", "e", "r", "f", "o", "r", "m", "a", "n", "c", "e">>,
         <<"h", "i", "r", "i", "n", "g">> >>],
       [name |-> "marketing", keywords |-> <<
         <<"m", "a", "r", "k", "e", "t", "i", "n", "g">>,
         <<"c", "a", "m", "p", "a", "i", "g", "n">>,
         <<"p", "r", "o", "m", "o", "t", "i", "o", "n">>,
         <<"a", "d", "v", "e", "r", "t", "i", "s", "i", "n", "g">>,
         <<"b", "r", "a", "n", "d">> >>] >>

\* self.classifier: None, or the table returned by _create_rule_based_classifier
NoClassifier == <<>>
RuleBased == <<create_rule_based_classifier>>

\* tag -> keywords table of _extract_tags, in the dict's insertion order.
tag_keywords ==
    << [name |-> "urgent", keywords |-> <<
         <<"u", "r", "g", "e", "n", "t">>,
         <<"a", "s", "a", "p">>,
         <<"i", "m", "m", "e", "d", "i", "a", "t", "e">>,
         <<"p", "r", "i", "o", "r", "i", "t", "y">> >>],
       [name |-> "confidential", keywords |-> <<
         <<"c", "o", "n", "f", "i", "d", "e", "n", "t", "i", "a", "l">>,
         <<"p", "r", "i", "v", "a", "t", "e">>,
         <<"r", "e", "s", "t", "r", "i", "c", "t", "e", "d">>,
         <<"s", "e", "n", "s", "i", "t", "i", "v", "e">> >>],
       [name |-> "draft", keywords |-> <<
         <<"d", "r", "a", "f", "t">>,
         <<"p", "r", "e", "l", "i", "m", "i", "n", "a", "r", "y">>,
         <<"v", "e", "r", "s", "i", "o", "n">>,
         <<"v", "1">>,
         <<"v", "2">> >>],
       [name |-> "final", keywords |-> <<
         <<"f", "i", "n", "a", "l">>,
         <<"a", "p", "p", "r", "o", "v", "e", "d">>,
         <<"c", "o", "m", "p", "l", "e", "t", "e", "d">>,
         <<"s", "i", "g", "n", "e", "d">> >>],
       [name |-> "expired", keywords |-> <<
         <<"e", "x", "p", "i", "r", "e", "d">>,
         <<"o", "v", "e", "r", "d", "u", "e">>,
         <<"p", "a", "s", "t", " ", "d", "u", "e">> >>],
       [name |-> "pending", keywords |-> <<
         <<"p", "e", "n", "d", "i", "n", "g">>,
         <<"a", "w", "a", "i", "t", "i", "n", "g">>,
         <<"i", "n", " ", "p", "r", "o", "g", "r", "e", "s", "s">> >>] >>

\* tags[:5]
MaxTags == 5

\* floats the classifier handles are exact fractions num/den
Frac(n, d) == [num |-> n, den |-> d]
Tenth == Frac(1, 10)
One == Frac(1, 1)
FLess(a, b) == a.num * b.den < b.num * a.den
FEq(a, b) == a.num * b.den = b.num * a.den
\* Python's min(a, b) and max(a, b): the first argument unless the second beats it
FMin(a, b) == IF FLess(b, a) THEN b ELSE a
FMax(a, b) == IF FLess(a, b) THEN b ELSE a

\* sum(1 for keyword in keywords if keyword in text)
Score(keywords, text) ==
    Cardinality({i \in 1..Len(keywords) : Contains(keywords[i], text)})

\* the scores dict of _rule_based_classify, in the table's order
Scores(cl, text) == [i \in 1..Len(cl) |-> Score(cl[i].keywords, text)]

\* max(scores.values())
MaxScore(sc) == CHOOSE m \in {sc[i] : i \in 1..Len(sc)} : \A i \in 1..Len(sc) : sc[i] <= m

\* A bug max(scores, key=scores.get) could have: the last key with the maximum.
BestIndex_last(sc) ==
    CHOOSE i \in 1..Len(sc) : sc[i] = MaxScore(sc) /\ \A j \in (i + 1)..Len(sc) : sc[j] < sc[i]

\* max(scores, key=scores.get): the first key, in insertion order, with the maximum
BestIndex(sc) ==
    CHOOSE i \in 1..Len(sc) : sc[i] = MaxScore(sc) /\ \A j \in 1..(i - 1) : sc[j] < sc[i]

\* A bug _rule_based_classify could have: no `max(scores.values()) == 0` early return.
rule_based_classify_no_zero_check(classifier_, text) ==
    IF classifier_ = NoClassifier
    THEN [raised |-> TRUE, category |-> "", confidence |-> Tenth]
    ELSE LET cl == classifier_[1]
             sc == Scores(cl, text)
             best == BestIndex(sc)
         IN  [raised |-> FALSE, category |-> cl[best].name,
              confidence |-> FMax(FMin(Frac(sc[best], Len(cl[best].keywords)), One), Tenth)]

\* A bug _rule_based_classify could have: dividing by len(self.classifier).
rule_based_classify_wrong_len(classifier_, text) ==
    IF classifier_ = NoClassifier
    THEN [raised |-> TRUE, category |-> "", confidence |-> Tenth]
    ELSE LET cl == classifier_[1]
             sc == Scores(cl, text)
             best == BestIndex(sc)
         IN  IF MaxScore(sc) = 0
             THEN [raised |-> FALSE, category |-> "other", confidence |-> Tenth]
             ELSE [raised |-> FALSE, category |-> cl[best].name,
                   confidence |-> FMax(FMin(Frac(sc[best], Len(cl)), One), Tenth)]

\* _rule_based_classify.  With self.classifier None, .items() raises; otherwise
\* (category, confidence).
rule_based_classify(classifier_, text) ==
    IF classifier_ = NoClassifier
    THEN [raised |-> TRUE, category |-> "", confidence |-> Tenth]
    ELSE LET cl == classifier_[1]
             sc == Scores(cl, text)
             best == BestIndex(sc)
         IN  IF MaxScore(sc) = 0
             THEN [raised |-> FALSE, category |-> "other", confidence |-> Tenth]
             ELSE [raised |-> FALSE, category |-> cl[best].name,
                   confidence |->
                       FMax(FMin(Frac(sc[best], Len(cl[best].keywords)), One), Tenth)]

\* the tags list of _extract_tags before truncation: table order, one entry per tag
MatchingTags(text) ==
    LET hit == SelectSeq(tag_keywords,
                         LAMBDA r : \E i \in 1..Len(r.keywords) : Contains(r.keywords[i], text))
    IN  [i \in 1..Len(hit) |-> hit[i].name]

\* A bug _extract_tags could have: keeping the last five tags instead of the first.
extract_tags_last_five(text) ==
    LET tags == MatchingTags(text)
    IN  SubSeq(tags, IF Len(tags) < MaxTags THEN 1 ELSE Len(tags) - MaxTags + 1, Len(tags))

\* _extract_tags
extract_tags(text) ==
    LET tags == MatchingTags(text)
    IN  SubSeq(tags, 1, IF Len(tags) < MaxTags THEN Len(tags) ELSE MaxTags)

\* A bug classify_document could have: the except clause re-raises.
classification_failed_reraise ==
    [raised |-> TRUE, category |-> "other", confidence |-> Tenth, tags |-> <<>>]

\* the except clause of classify_document
classification_failed ==
    [raised |-> FALSE, category |-> "other", confidence |-> Tenth, tags |-> <<>>]

\* classify_document(text, title)
classify_document(classifier_, text, title) ==
    LET combined_text == lower(FormatCombined(title, text))
        r == rule_based_classify(classifier_, combined_text)
    IN  IF r.raised
        THEN classification_failed
        ELSE [raised |-> FALSE, category |-> r.category, confidence |-> r.confidence,
              tags |-> extract_tags(combined_text)]

----------------------------------------------------------------------------
(* Callers of the classification service: startup and direct calls.        *)

\* pieces the text argument of a call is assembled from
Fragments ==
    << <<"t", "o", "t", "a", "l", " ", "a", "m", "o", "u", "n", "t", " ", "d", "u", "e">>,
       <<"p", "a", "y", "m", "e", "n", "t", " ", "t", "e", "r", "m", "s">>,
       <<"l", "a", "w", "s", "u", "i", "t">>,
       <<"t", "e", "c", "h", "n", "i", "c", "a", "l", " ", "s", "p", "e", "c", "i", "f", "i", "c", "a", "t", "i", "o", "n", " ", "m", "a", "n", "u", "a", "l", " ", "g", "u", "i", "d", "e", " ", "p", "r", "o", "c", "e", "d", "u", "r", "e">>,
       <<"U", "R", "G", "E", "N", "T">>,
       <<"h", "e", "l", "l", "o">>,
       <<"u", "r", "g", "e", "n", "t", " ", "p", "r", "i", "v", "a", "t", "e", " ", "d", "r", "a", "f", "t", " ", "f", "i", "n", "a", "l", " ", "o", "v", "e", "r", "d", "u", "e", " ", "p", "e", "n", "d", "i", "n", "g">>,
       <<"p", "o", "l", "i", "c", "y", " ", "m", "e", "m", "o">>,
       <<"M", "A", "R", "U+212A", "E", "T", "I", "N", "G", " ", "p", "l", "a", "n">> >>

Titles ==
    { <<>>,
      <<"I", "n", "v", "o", "i", "c", "e">>,
      <<"p", "a", "s", "t">>,
      <<"Q", "u", "a", "r", "t", "e", "r", "l", "y", " ", "R", "e", "p", "o", "r", "t">> }

InitClassifyVars ==
    /\ classifier = NoClassifier
    /\ c_title = <<>>
    /\ c_text = <<>>
    /\ c_frags = 0
    /\ c_result = <<>>
    /\ c_inits = 0

\* ClassificationService.initialize (run by startup_event): it tests nothing, and
\* on a loaded service it loads the table again
initialize ==
    /\ c_inits < MaxInits
    /\ classifier' = RuleBased
    /\ c_inits' = c_inits + 1
    /\ UNCHANGED <<c_title, c_text, c_frags, c_result>>
    /\ UNCHANGED pvars
    /\ UNCHANGED xvars

\* the caller picks the title of the call
ChooseTitle ==
    /\ c_result = <<>>
    /\ c_frags = 0
    /\ c_title = <<>>
    /\ \E t \in Titles : t # <<>> /\ c_title' = t
    /\ UNCHANGED <<classifier, c_text, c_frags, c_result, c_inits>>
    /\ UNCHANGED pvars
    /\ UNCHANGED xvars

\* the caller extends the text of the call by one fragment
ExtendText ==
    /\ c_result = <<>>
    /\ c_frags < MaxFrags
    /\ \E i \in 1..Len(Fragments) :
           c_text' = IF c_frags = 0 THEN Fragments[i] ELSE c_text \o <<" ">> \o Fragments[i]
    /\ c_frags' = c_frags + 1
    /\ UNCHANGED <<classifier, c_title, c_result, c_inits>>
    /\ UNCHANGED pvars
    /\ UNCHANGED xvars

\* A bug classify_document could have: the call consumes the keyword table.
ClassifyCall_drops_table ==
    /\ c_result = <<>>
    /\ c_result' = <<[ready |-> classifier # NoClassifier, inits |-> c_inits,
                      out |-> classify_document(classifier, c_text, c_title)]>>
    /\ classifier' = NoClassifier
    /\ UNCHANGED <<c_title, c_text, c_frags, c_inits>>
    /\ UNCHANGED pvars
    /\ UNCHANGED xvars

\* a call classify_document(c_text, c_title); `ready` records is_ready() at the
\* call, `inits` the initialize() calls completed before it
ClassifyCall ==
    /\ c_result = <<>>
    /\ c_result' = <<[ready |-> classifier # NoClassifier, inits |-> c_inits,
                      out |-> classify_document(classifier, c_text, c_title)]>>
    /\ UNCHANGED <<classifier, c_title, c_text, c_frags, c_inits>>
    /\ UNCHANGED pvars
    /\ UNCHANGED xvars

NextClassify == initialize \/ ChooseTitle \/ ExtendText \/ ClassifyCall

----------------------------------------------------------------------------
(* The document store (API service) and the vector store.                  *)


\* Optional values: None and a present value
None == <<>>
Some(v) == <<v>>

\* the uploaded documents, by id: title and the bytes of the (text/plain) file
SampleDocuments ==
    << [title |-> <<"B", "i", "l", "l">>,
        content |-> <<"t", "a", "x", " ", "d", "u", "e", " ", "A", "S", "A", "P", "\n">>],
       [title |-> <<"M", "e", "m", "o">>,
        content |-> <<" ">>] >>

DocIds == 1..Len(SampleDocuments)
Runs == 1..NumRuns

----------------------------------------------------------------------------
(* Initial values of the state outside the pipeline and the single call.   *)

\* no classify_document call has returned yet
InitCallLog == c_log = <<>>

\* a ChatRequest not yet received, and a ChatResponse not yet produced
NoChatRequest == [query |-> "", document_id |-> None, context_limit |-> 5,
                  conversation_id |-> None]
NoChatResponse == [status_code |-> 0]
NoAnswer == [fixed |-> "", generated |-> None]

\* no /rag/chat request has been received
InitChatVars ==
    /\ chat_pc = "idle"
    /\ chat_turns = 0
    /\ chat_request = NoChatRequest
    /\ search_query = None
    /\ search_outcome = [kind |-> "none", ranking |-> <<>>]
    /\ relevant_docs = [is_none |-> FALSE, docs |-> <<>>]
    /\ llm_context = None
    /\ response_text = NoAnswer
    /\ chat_response = NoChatResponse
    /\ issued_ids = <<>>

\* _extract_from_pdf has not been called
InitPdfCall ==
    /\ pdf_pc = "idle"
    /\ page_num = 0
    /\ pdf_text = <<>>
    /\ ocr_calls = <<>>
    /\ pdf_result = <<>>

\* a request and an outcome of extract_text not yet there
NoExtractRequest == [content_type |-> [major |-> "", minor |-> ""],
                     payload |-> [kind |-> "text", chars |-> <<>>]]

\* extract_text has not been called
InitExtractCall ==
    /\ ex_pc = "idle"
    /\ ex_result = <<>>
    /\ tmp_files = 0

NoDoc == [ents |-> <<>>, tokens |-> <<>>]

InitSummaryCall ==
    /\ sum_pc = "idle"
    /\ sum_model_calls = <<>>
    /\ sum_result = <<>>
    /\ sum_log = <<>>

InitAnalyzeCall ==
    /\ an_pc = "idle"
    /\ an_entities = <<>>
    /\ an_keywords = <<>>

\* no call of the NLP service
InitNlpCalls ==
    /\ InitSummaryCall /\ sum_text = <<>>
    /\ InitAnalyzeCall /\ an_doc = NoDoc

InitOtherVars ==
    /\ InitCallLog
    /\ InitChatVars
    /\ InitPdfCall
    /\ pdf_pages = <<>>
    /\ InitExtractCall
    /\ ex_request = NoExtractRequest
    /\ InitNlpCalls

SampleOf(d) == SampleDocuments[d]

\* the record create_document stores for an upload
create_document(d) ==
    [title |-> SampleOf(d).title,
     content_type |-> "text/plain",
     file_url |-> d,
     tags |-> <<>>,
     status |-> "uploaded",
     extracted_text |-> None,
     summary |-> None,
     entities |-> None,
     classification |-> None,
     classification_confidence |-> None,
     processing_error |-> None]

\* the object behind a file_url
FileAt(url) == SampleOf(url).content

\* the store applying an accepted update: the fields of the request body are set
ApplyUpdate(rec, update_data) ==
    [f \in DOMAIN rec |-> IF f \in DOMAIN update_data THEN update_data[f] ELSE rec[f]]

----------------------------------------------------------------------------
(* Stages of process_document.                                             *)

\* the characters str.strip() removes: the ASCII ones and, named by their code
\* points, the other characters of which str.isspace() holds
WhiteSpace ==
    {" ", "\t", "\n", "\r", "\f", "U+000B", "U+001C", "U+001D", "U+001E", "U+001F",
     "U+0085", "U+00A0", "U+1680", "U+2000", "U+2001", "U+2002", "U+2003", "U+2004",
     "U+2005", "U+2006", "U+2007", "U+2008", "U+2009", "U+200A", "U+2028", "U+2029",
     "U+202F", "U+205F", "U+3000"}

\* `not text.strip()`
IsBlank(text) == \A i \in 1..Len(text) : text[i] \in WhiteSpace

SummaryFailed == "Summary generation failed"
ModelSummary == "generated summary"

\* NLPService.generate_summary given the outcome of the model call
generate_summary(text, outcome) ==
    IF IsBlank(text) THEN ""
    ELSE IF outcome = "ok" THEN ModelSummary
    ELSE SummaryFailed

\* s.strip()
Strip(s) ==
    LET keep == {i \in 1..Len(s) : s[i] \notin WhiteSpace}
    IN  IF keep = {} THEN <<>>
        ELSE SubSeq(s, CHOOSE i \in keep : \A j \in keep : i <= j,
                       CHOOSE i \in keep : \A j \in keep : j <= i)

\* characters of the text that analyze_text hands to the language model
ParseLimit == 1000000

\* entities of NLPAnalysis: the parsed text, text[:1000000], as one recognised
\* span, stored stripped
analyze_text(text) ==
    LET parsed == Take(text, ParseLimit)
    IN  IF IsBlank(parsed) THEN <<>>
        ELSE <<[label |-> "MISC", texts |-> <<Strip(parsed)>>]>>

\* str(e) of the exception a failed call raises
ExcText(call, outcome) ==
    IF outcome = "status" /\ call = "fetch" THEN <<"404", "Document not found">>
    ELSE IF outcome = "status" /\ call = "download" THEN <<"404", "Document file not found">>
    ELSE <<call, "failed">>

\* update_data of process_document
update_data(p) ==
    [extracted_text |-> Some(extracted_text[p]),
     summary |-> Some(summary[p]),
     entities |-> Some(nlp_analysis[p]),
     classification |-> Some(classification[p].category),
     classification_confidence |-> Some(classification[p].confidence),
     status |-> "processed"]

\* the json body of the error update
error_data(p) ==
    [status |-> "error", processing_error |-> Some(exc[p])]

\* document_object of RAGService.index_document
document_object(p) ==
    [title |-> document[p].title,
     content |-> extracted_text[p],
     summary |-> summary[p],
     category |-> classification[p].category,
     tags |-> document[p].tags,
     document_id |-> document_id[p]]

\* ProcessDocumentResponse
completed_response(p) ==
    [status_code |-> 200,
     status |-> "completed",
     document_id |-> document_id[p],
     extracted_text |-> extracted_text[p],
     summary |-> summary[p],
     entities |-> nlp_analysis[p],
     classification |-> classification[p]]

\* HTTPException(status_code=500, detail=f"Document processing failed: {str(e)}")
failure_response(e) ==
    [status_code |-> 500, detail |-> <<"Document processing failed: ", e>>]

NoDocument == [title |-> <<>>, content_type |-> "", file_url |-> 0, tags |-> <<>>]
NoClassification == [raised |-> FALSE, category |-> "", confidence |-> Tenth, tags |-> <<>>]
NoResponse == [status_code |-> 0]

InitPipelineVars ==
    /\ docs = [d \in DocIds |-> create_document(d)]
    /\ weaviate = <<>>
    /\ pc = [p \in Runs |-> "idle"]
    /\ document_id = [p \in Runs |-> 0]
    /\ document = [p \in Runs |-> NoDocument]
    /\ file_content = [p \in Runs |-> <<>>]
    /\ extracted_text = [p \in Runs |-> <<>>]
    /\ nlp_analysis = [p \in Runs |-> <<>>]
    /\ classification = [p \in Runs |-> NoClassification]
    /\ summary = [p \in Runs |-> ""]
    /\ exc = [p \in Runs |-> <<>>]
    /\ response = [p \in Runs |-> NoResponse]
    /\ trace = [p \in Runs |-> <<>>]

\* the run records an external call and its outcome
Called(p, call, outcome) == trace' = [trace EXCEPT ![p] = Append(@, <<call, outcome>>)]

\* the try block is left with exception e: control reaches the except clause
Raise(p, call, outcome) ==
    /\ exc' = [exc EXCEPT ![p] = ExcText(call, outcome)]
    /\ pc' = [pc EXCEPT ![p] = "except"]

\* POST /process/document arrives
Request(p) ==
    /\ pc[p] = "idle"
    /\ \E d \in DocIds : document_id' = [document_id EXCEPT ![p] = d]
    /\ pc' = [pc EXCEPT ![p] = "fetch"]
    /\ UNCHANGED <<docs, weaviate, document, file_content, extracted_text, nlp_analysis,
                   classification, summary, exc, response, trace>>
    /\ UNCHANGED cvars
    /\ UNCHANGED xvars

\* GET /documents/{document_id}: 200, another status, or the client raises
FetchDocument(p) ==
    /\ pc[p] = "fetch"
    /\ \E outcome \in {"ok", "status", "raise"} :
        /\ Called(p, "fetch", outcome)
        /\ IF outcome = "ok"
           THEN /\ document' = [document EXCEPT ![p] =
                       [title |-> docs[document_id[p]].title,
                        content_type |-> docs[document_id[p]].content_type,
                        file_url |-> docs[document_id[p]].file_url,
                        tags |-> docs[document_id[p]].tags]]
                /\ pc' = [pc EXCEPT ![p] = "download"]
                /\ UNCHANGED exc
           ELSE /\ Raise(p, "fetch", outcome)
                /\ UNCHANGED document
    /\ UNCHANGED <<docs, weaviate, document_id, file_content, extracted_text, nlp_analysis,
                   classification, summary, response>>
    /\ UNCHANGED cvars
    /\ UNCHANGED xvars

\* GET document["file_url"]
DownloadFile(p) ==
    /\ pc[p] = "download"
    /\ \E outcome \in {"ok", "status", "raise"} :
        /\ Called(p, "download", outcome)
        /\ IF outcome = "ok"
           THEN /\ file_content' = [file_content EXCEPT ![p] = FileAt(document[p].file_url)]
                /\ pc' = [pc EXCEPT ![p] = "extract"]
                /\ UNCHANGED exc
           ELSE /\ Raise(p, "download", outcome)
                /\ UNCHANGED file_content
    /\ UNCHANGED <<docs, weaviate, document_id, document, extracted_text, nlp_analysis,
                   classification, summary, response>>
    /\ UNCHANGED cvars
    /\ UNCHANGED xvars

\* ocr_service.extract_text on a text/plain file: file_content.decode('utf-8'), or raises
ExtractText(p) ==
    /\ pc[p] = "extract"
    /\ \E outcome \in {"ok", "raise"} :
        /\ Called(p, "extract", outcome)
        /\ IF outcome = "ok"
           THEN /\ extracted_text' = [extracted_text EXCEPT ![p] = file_content[p]]
                /\ pc' = [pc EXCEPT ![p] = "analyze"]
                /\ UNCHANGED exc
           ELSE /\ Raise(p, "extract", outcome)
                /\ UNCHANGED extracted_text
    /\ UNCHANGED <<docs, weaviate, document_id, document, file_content, nlp_analysis,
                   classification, summary, response>>
    /\ UNCHANGED cvars
    /\ UNCHANGED xvars

\* nlp_service.analyze_text: returns the analysis or re-raises the model's failure
AnalyzeText(p) ==
    /\ pc[p] = "analyze"
    /\ \E outcome \in {"ok", "raise"} :
        /\ Called(p, "analyze", outcome)
        /\ IF outcome = "ok"
           THEN /\ nlp_analysis' = [nlp_analysis EXCEPT ![p] = analyze_text(extracted_text[p])]
                /\ pc' = [pc EXCEPT ![p] = "classify"]
                /\ UNCHANGED exc
           ELSE /\ Raise(p, "analyze", outcome)
                /\ UNCHANGED nlp_analysis
    /\ UNCHANGED <<docs, weaviate, document_id, document, file_content, extracted_text,
                   classification, summary, response>>
    /\ UNCHANGED cvars
    /\ UNCHANGED xvars

\* classification_service.classify_document(extracted_text, document["title"])
ClassifyDocument(p) ==
    /\ pc[p] = "classify"
    /\ classification' = [classification EXCEPT ![p] =
           classify_document(classifier, extracted_text[p], document[p].title)]
    /\ pc' = [pc EXCEPT ![p] = "summary"]
    /\ UNCHANGED <<docs, weaviate, document_id, document, file_content, extracted_text,
                   nlp_analysis, summary, exc, response, trace>>
    /\ UNCHANGED cvars
    /\ UNCHANGED xvars

\* A bug generate_summary could have: the model's failure is not caught.
GenerateSummary_raises(p) ==
    /\ pc[p] = "summary"
    /\ IF IsBlank(extracted_text[p])
       THEN /\ summary' = [summary EXCEPT ![p] = ""]
            /\ pc' = [pc EXCEPT ![p] = "update"]
            /\ UNCHANGED <<exc, trace>>
       ELSE \E outcome \in {"ok", "raise"} :
            /\ Called(p, "summary", outcome)
            /\ IF outcome = "ok"
               THEN /\ summary' = [summary EXCEPT ![p] = ModelSummary]
                    /\ pc' = [pc EXCEPT ![p] = "update"]
                    /\ UNCHANGED exc
               ELSE /\ Raise(p, "summary", outcome)
                    /\ UNCHANGED summary
    /\ UNCHANGED <<docs, weaviate, document_id, document, file_content, extracted_text,
                   nlp_analysis, classification, response>>
    /\ UNCHANGED cvars
    /\ UNCHANGED xvars

\* nlp_service.generate_summary(extracted_text): no model call for a blank text; a
\* failed model call yields the failure string
GenerateSummary(p) ==
    /\ pc[p] = "summary"
    /\ IF IsBlank(extracted_text[p])
       THEN /\ summary' = [summary EXCEPT ![p] = generate_summary(extracted_text[p], "ok")]
            /\ UNCHANGED trace
       ELSE \E outcome \in {"ok", "raise"} :
            /\ Called(p, "summary", outcome)
            /\ summary' = [summary EXCEPT ![p] = generate_summary(extracted_text[p], outcome)]
    /\ pc' = [pc EXCEPT ![p] = "update"]
    /\ UNCHANGED <<docs, weaviate, document_id, document, file_content, extracted_text,
                   nlp_analysis, classification, exc, response>>
    /\ UNCHANGED cvars
    /\ UNCHANGED xvars

\* A bug the update could have: the PUT goes to a document id shared by all runs.
UpdateDocument_shared_id(p) ==
    /\ pc[p] = "update"
    /\ \E outcome \in {"applied", "rejected", "raise"} :
        /\ Called(p, "update", outcome)
        /\ IF outcome = "applied"
           THEN docs' = [docs EXCEPT ![1] = ApplyUpdate(@, update_data(p))]
           ELSE UNCHANGED docs
        /\ IF outcome = "raise"
           THEN Raise(p, "update", outcome)
           ELSE /\ pc' = [pc EXCEPT ![p] = "index"]
                /\ UNCHANGED exc
    /\ UNCHANGED <<weaviate, document_id, document, file_content, extracted_text,
                   nlp_analysis, classification, summary, response>>
    /\ UNCHANGED cvars
    /\ UNCHANGED xvars

\* PUT /documents/{document_id} with update_data.  The store applies it and answers
\* 2xx, or answers another status without applying it (update_response is never
\* inspected), or the client raises.
UpdateDocument(p) ==
    /\ pc[p] = "update"
    /\ \E outcome \in {"applied", "rejected", "raise"} :
        /\ Called(p, "update", outcome)
        /\ IF outcome = "applied"
           THEN docs' = [docs EXCEPT ![document_id[p]] = ApplyUpdate(@, update_data(p))]
           ELSE UNCHANGED docs
        /\ IF outcome = "raise"
           THEN Raise(p, "update", outcome)
           ELSE /\ pc' = [pc EXCEPT ![p] = "index"]
                /\ UNCHANGED exc
    /\ UNCHANGED <<weaviate, document_id, document, file_content, extracted_text,
                   nlp_analysis, classification, summary, response>>
    /\ UNCHANGED cvars
    /\ UNCHANGED xvars

\* A bug the indexing could have: a document that has an object is not indexed again.
IndexDocument_if_absent(p) ==
    /\ pc[p] = "index"
    /\ \E outcome \in {"ok", "raise"} :
        /\ Called(p, "index", outcome)
        /\ IF outcome = "ok"
           THEN /\ weaviate' = IF \E i \in 1..Len(weaviate) :
                                     weaviate[i].document_id = document_id[p]
                                THEN weaviate
                                ELSE Append(weaviate, document_object(p))
                /\ response' = [response EXCEPT ![p] = completed_response(p)]
                /\ pc' = [pc EXCEPT ![p] = "done"]
                /\ UNCHANGED exc
           ELSE /\ Raise(p, "index", outcome)
                /\ UNCHANGED <<weaviate, response>>
    /\ UNCHANGED <<docs, document_id, document, file_content, extracted_text,
                   nlp_analysis, classification, summary>>
    /\ UNCHANGED cvars
    /\ UNCHANGED xvars

\* rag_service.index_document, then the ProcessDocumentResponse is returned
IndexDocument(p) ==
    /\ pc[p] = "index"
    /\ \E outcome \in {"ok", "raise"} :
        /\ Called(p, "index", outcome)
        /\ IF outcome = "ok"
           THEN /\ weaviate' = Append(weaviate, document_object(p))
                /\ response' = [response EXCEPT ![p] = completed_response(p)]
                /\ pc' = [pc EXCEPT ![p] = "done"]
                /\ UNCHANGED exc
           ELSE /\ Raise(p, "index", outcome)
                /\ UNCHANGED <<weaviate, response>>
    /\ UNCHANGED <<docs, document_id, document, file_content, extracted_text,
                   nlp_analysis, classification, summary>>
    /\ UNCHANGED cvars
    /\ UNCHANGED xvars

\* A bug the except clause could have: a failure of the error update escapes, so the
\* caller gets that failure instead of the original one.
MarkError_not_swallowed(p) ==
    /\ pc[p] = "except"
    /\ \E outcome \in {"applied", "rejected", "raise"} :
        /\ Called(p, "error_update", outcome)
        /\ IF outcome = "applied"
           THEN docs' = [docs EXCEPT ![document_id[p]] = ApplyUpdate(@, error_data(p))]
           ELSE UNCHANGED docs
        /\ response' = [response EXCEPT ![p] =
               IF outcome = "raise"
               THEN [status_code |-> 500, detail |-> ExcText("error_update", outcome)]
               ELSE failure_response(exc[p])]
    /\ pc' = [pc EXCEPT ![p] = "done"]
    /\ UNCHANGED <<weaviate, document_id, document, file_content, extracted_text,
                   nlp_analysis, classification, summary, exc>>
    /\ UNCHANGED cvars
    /\ UNCHANGED xvars

\* A bug the except clause could have: the error update carries the status only.
MarkError_no_detail(p) ==
    /\ pc[p] = "except"
    /\ \E outcome \in {"applied", "rejected", "raise"} :
        /\ Called(p, "error_update", outcome)
        /\ IF outcome = "applied"
           THEN docs' = [docs EXCEPT ![document_id[p]] = ApplyUpdate(@, [status |-> "error"])]
           ELSE UNCHANGED docs
    /\ response' = [response EXCEPT ![p] = failure_response(exc[p])]
    /\ pc' = [pc EXCEPT ![p] = "done"]
    /\ UNCHANGED <<weaviate, document_id, document, file_content, extracted_text,
                   nlp_analysis, classification, summary, exc>>
    /\ UNCHANGED cvars
    /\ UNCHANGED xvars

\* A bug the except clause could have: the run starts over instead of answering.
MarkError_retries(p) ==
    /\ pc[p] = "except"
    /\ \E outcome \in {"applied", "rejected", "raise"} :
        /\ Called(p, "error_update", outcome)
        /\ IF outcome = "applied"
           THEN docs' = [docs EXCEPT ![document_id[p]] = ApplyUpdate(@, error_data(p))]
           ELSE UNCHANGED docs
    /\ pc' = [pc EXCEPT ![p] = IF Len(trace[p]) < 12 THEN "fetch" ELSE "done"]
    /\ response' = [response EXCEPT ![p] =
           IF Len(trace[p]) < 12 THEN @ ELSE failure_response(exc[p])]
    /\ UNCHANGED <<weaviate, document_id, document, file_content, extracted_text,
                   nlp_analysis, classification, summary, exc>>
    /\ UNCHANGED cvars
    /\ UNCHANGED xvars

\* the except clause: PUT {"status": "error", "processing_error": str(e)}, whose own
\* failure is swallowed (bare except: pass), then HTTPException(500) with str(e)
MarkError(p) ==
    /\ pc[p] = "except"
    /\ \E outcome \in {"applied", "rejected", "raise"} :
        /\ Called(p, "error_update", outcome)
        /\ IF outcome = "applied"
           THEN docs' = [docs EXCEPT ![document_id[p]] = ApplyUpdate(@, error_data(p))]
           ELSE UNCHANGED docs
    /\ response' = [response EXCEPT ![p] = failure_response(exc[p])]
    /\ pc' = [pc EXCEPT ![p] = "done"]
    /\ UNCHANGED <<weaviate, document_id, document, file_content, extracted_text,
                   nlp_analysis, classification, summary, exc>>
    /\ UNCHANGED cvars
    /\ UNCHANGED xvars

----------------------------------------------------------------------------
(* Specifications.                                                         *)

\* the pipeline: startup has completed, so the keyword table is loaded
Init ==
    /\ classifier = RuleBased
    /\ c_title = <<>>
    /\ c_text = <<>>
    /\ c_frags = 0
    /\ c_result = <<>>
    /\ c_inits = 1
    /\ InitPipelineVars
    /\ InitOtherVars

Next ==
    \E p \in Runs :
        \/ Request(p)
        \/ FetchDocument(p)
        \/ DownloadFile(p)
        \/ ExtractText(p)
        \/ AnalyzeText(p)
        \/ ClassifyDocument(p)
        \/ GenerateSummary(p)
        \/ UpdateDocument(p)
        \/ IndexDocument(p)
        \/ MarkError(p)

Spec == Init /\ [][Next]_vars

\* direct calls of the classification service, before or after initialize
InitClassify == InitClassifyVars /\ InitPipelineVars /\ InitOtherVars

SpecClassify == InitClassify /\ [][NextClassify]_vars

----------------------------------------------------------------------------
(* Vocabulary of the properties.                                           *)

\* run p issued `call` and it ended with `outcome`
HasCall(p, call, outcome) ==
    \E i \in 1..Len(trace[p]) : trace[p][i] = <<call, outcome>>

\* run p issued `call`
Issued(p, call) == \E i \in 1..Len(trace[p]) : trace[p][i][1] = call

\* the run has answered its caller
Finished(p) == pc[p] = "done"

\* no other request names the document of run p
OnlyRunOn(p) == \A q \in Runs \ {p} : document_id[q] # document_id[p]

\* the vector-store objects of document d, in creation order
ObjectsOf(d) == SelectSeq(weaviate, LAMBDA o : o.document_id = d)

\* extracted text, summary, entities and classification are written
ResultsWritten(rec) ==
    /\ rec.extracted_text # None
    /\ rec.summary # None
    /\ rec.entities # None
    /\ rec.classification # None

FailureOutcomes == {"status", "raise"}

\* a call before the results are written failed
FailedBeforeWrite(p) ==
    \E call \in {"fetch", "download", "extract", "analyze"} :
        \E o \in FailureOutcomes : HasCall(p, call, o)

\* str(e) of the first failure of the run that generate_summary does not absorb: the
\* exception the except clause catches
OriginalExc(p) ==
    LET failing == {i \in 1..Len(trace[p]) :
                       trace[p][i][2] \in FailureOutcomes /\ trace[p][i][1] # "summary"}
        first == CHOOSE i \in failing : \A j \in failing : i <= j
    IN  ExcText(trace[p][first][1], trace[p][first][2])

\* number of status writes the store applied among the calls tr of one run
StatusWrites(tr) ==
    Cardinality({i \in 1..Len(tr) :
                    tr[i][1] \in {"update", "error_update"} /\ tr[i][2] = "applied"})

\* every call of the run other than the summary's model call succeeded
OthersSucceeded(p) ==
    \A i \in 1..Len(trace[p]) :
        trace[p][i][1] # "summary" => trace[p][i][2] \in {"ok", "applied"}

\* what a run with the outcomes of run p leaves behind when it executes alone
AloneSummary(p) ==
    IF IsBlank(FileAt(document_id[p])) THEN ""
    ELSE IF HasCall(p, "summary", "ok") THEN ModelSummary
    ELSE SummaryFailed

\* the classification of each uploaded document with the keyword table loaded
ClassificationOf ==
    [d \in DocIds |->
        classify_document(RuleBased, FileAt(d), SampleOf(d).title)]

AloneClassification(p) == ClassificationOf[document_id[p]]

AloneRecord(p) ==
    LET d == document_id[p]
        r0 == create_document(d)
        r1 == IF HasCall(p, "update", "applied")
              THEN [r0 EXCEPT !.extracted_text = Some(FileAt(d)),
                              !.summary = Some(AloneSummary(p)),
                              !.entities = Some(analyze_text(FileAt(d))),
                              !.classification = Some(AloneClassification(p).category),
                              !.classification_confidence =
                                  Some(AloneClassification(p).confidence),
                              !.status = "processed"]
              ELSE r0
    IN  IF HasCall(p, "error_update", "applied")
        THEN [r1 EXCEPT !.status = "error", !.processing_error = Some(OriginalExc(p))]
        ELSE r1

AloneObjects(p) ==
    IF HasCall(p, "index", "ok")
    THEN <<[title |-> SampleOf(document_id[p]).title,
            content |-> FileAt(document_id[p]),
            summary |-> AloneSummary(p),
            category |-> AloneClassification(p).category,
            tags |-> <<>>,
            document_id |-> document_id[p]]>>
    ELSE <<>>

----------------------------------------------------------------------------
(* Properties of process_document (specification Spec).                    *)

\* C1: no partial success.  A finished run never leaves the document record
\* 'processed' without a vector-store object for the document.
C1_NoPartialSuccess ==
    \A p \in Runs :
        (Finished(p) /\ docs[document_id[p]].status = "processed")
            => /\ ResultsWritten(docs[document_id[p]])
               /\ Len(ObjectsOf(document_id[p])) >= 1

\* C2 as claimed: a run in which a call before the results are written failed
\* issues no vector-store create and no 'processed' write, and the record ends with
\* status 'error' carrying the exception text.
C2_FatalFailureEndsInError ==
    \A p \in Runs :
        (Finished(p) /\ FailedBeforeWrite(p))
            => /\ ~Issued(p, "index")
               /\ ~Issued(p, "update")
               /\ docs[document_id[p]].status = "error"
               /\ docs[document_id[p]].processing_error = Some(OriginalExc(p))

\* C2 amended: such a run issues no vector-store create and no 'processed' write,
\* answers its caller with the failure, and issues one error update; the record has
\* status 'error' with the exception text when the store applies that update and no
\* other run names the document.
C2_FatalFailureAborts ==
    \A p \in Runs :
        (Finished(p) /\ FailedBeforeWrite(p))
            => /\ ~Issued(p, "index")
               /\ ~Issued(p, "update")
               /\ Issued(p, "error_update")
               /\ response[p].status_code = 500
               /\ (HasCall(p, "error_update", "applied") /\ OnlyRunOn(p))
                      => /\ docs[document_id[p]].status = "error"
                         /\ docs[document_id[p]].processing_error = Some(OriginalExc(p))
               /\ (~HasCall(p, "error_update", "applied") /\ OnlyRunOn(p))
                      => docs[document_id[p]].status = "uploaded"

C2_Witness ==
    \E p \in Runs :
        /\ Finished(p)
        /\ HasCall(p, "analyze", "raise")
        /\ HasCall(p, "error_update", "applied")
        /\ docs[document_id[p]].status = "error"

\* C3: a record's status only moves uploaded -> processed or uploaded -> error, and
\* a run has at most one status write applied.
C3_StatusStateMachine ==
    [][/\ \A d \in DocIds :
             docs'[d].status # docs[d].status
                 => /\ docs[d].status = "uploaded"
                    /\ docs'[d].status \in {"processed", "error"}
       /\ \A p \in Runs : StatusWrites(trace'[p]) <= 1]_vars

\* C4: a run whose summary model call fails while every other call succeeds
\* completes: the caller gets 'completed', the document is indexed with the failure
\* string as summary, and the record is 'processed' with that summary.
C4_SummaryFailureAbsorbed ==
    \A p \in Runs :
        (Finished(p) /\ HasCall(p, "summary", "raise") /\ OthersSucceeded(p))
            => /\ response[p].status_code = 200
               /\ response[p].status = "completed"
               /\ response[p].summary = "Summary generation failed"
               /\ \E i \in 1..Len(weaviate) :
                      /\ weaviate[i].document_id = document_id[p]
                      /\ weaviate[i].summary = "Summary generation failed"
               /\ OnlyRunOn(p)
                      => /\ docs[document_id[p]].status = "processed"
                         /\ docs[document_id[p]].summary = Some("Summary generation failed")

C4_Witness ==
    \E p \in Runs :
        /\ Finished(p)
        /\ HasCall(p, "summary", "raise")
        /\ OthersSucceeded(p)
        /\ HasCall(p, "index", "ok")

\* C5: when the error update of a failed run itself fails, the caller still gets
\* the 500 response carrying the text of the original exception.
C5_ErrorUpdateFailureSwallowed ==
    \A p \in Runs :
        (Finished(p) /\ HasCall(p, "error_update", "raise"))
            => /\ response[p].status_code = 500
               /\ response[p].detail = <<"Document processing failed: ", OriginalExc(p)>>
               /\ OriginalExc(p) # ExcText("error_update", "raise")

C5_Witness ==
    \E p \in Runs :
        /\ Finished(p)
        /\ HasCall(p, "extract", "raise")
        /\ HasCall(p, "error_update", "raise")

\* C6: once no run is in progress, every 'processed' document has exactly one
\* vector-store object and every vector-store object is of a 'processed' document.
C6_IndexOneToOne ==
    (\A p \in Runs : pc[p] \in {"idle", "done"})
        => /\ \A d \in DocIds :
                  docs[d].status = "processed" => Len(ObjectsOf(d)) = 1
           /\ \A i \in 1..Len(weaviate) :
                  docs[weaviate[i].document_id].status = "processed"

\* C7: a finished run that is the only one on its document leaves the record and
\* the vector-store objects of that document exactly as it would running alone,
\* whatever the other runs did meanwhile.
C7_ConcurrentRunsIndependent ==
    \A p \in Runs :
        (Finished(p) /\ OnlyRunOn(p))
            => /\ docs[document_id[p]] = AloneRecord(p)
               /\ ObjectsOf(document_id[p]) = AloneObjects(p)

C7_Witness ==
    \E p, q \in Runs :
        /\ Finished(p) /\ Finished(q)
        /\ document_id[p] # document_id[q]
        /\ HasCall(p, "index", "ok")
        /\ HasCall(q, "index", "raise")
        /\ HasCall(q, "error_update", "applied")

----------------------------------------------------------------------------
(* Properties of classify_document (specification SpecClassify).           *)

\* the string the call searches: lower-cased "title text"
CombinedOfCall == lower(FormatCombined(c_title, c_text))

\* no keyword of any category occurs in the searched string
NoCategoryKeyword ==
    LET text == CombinedOfCall
    IN  \A i \in 1..Len(create_rule_based_classifier) :
            \A j \in 1..Len(create_rule_based_classifier[i].keywords) :
                ~Contains(create_rule_based_classifier[i].keywords[j], text)

\* no keyword of any tag occurs in the searched string
NoTagKeyword ==
    LET text == CombinedOfCall
    IN  \A i \in 1..Len(tag_keywords) :
            \A j \in 1..Len(tag_keywords[i].keywords) :
                ~Contains(tag_keywords[i].keywords[j], text)

\* C8: classify_document never raises, and a call that faults inside (the keyword
\* table is not loaded) returns exactly ('other', 0.1, []).
C8_ClassifyNeverRaises ==
    c_result # <<>>
        => /\ ~c_result[1].out.raised
           /\ ~c_result[1].ready
                  => /\ c_result[1].out.category = "other"
                     /\ c_result[1].out.confidence = Frac(1, 10)
                     /\ c_result[1].out.tags = <<>>

C8_Witness ==
    /\ c_result # <<>>
    /\ ~c_result[1].ready
    /\ ~NoCategoryKeyword
    /\ ~NoTagKeyword

\* C9 as claimed: without any category keyword in the searched string the result
\* is 'other', 0.1 and an empty tag list.
C9_NoMatchGivesOtherNoTags ==
    (c_result # <<>> /\ NoCategoryKeyword)
        => /\ c_result[1].out.category = "other"
           /\ FEq(c_result[1].out.confidence, Frac(1, 10))
           /\ c_result[1].out.tags = <<>>

\* C9 amended: without any category keyword in the lower-cased "title text" string
\* the result is 'other' with confidence 0.1; the tag list is empty exactly when no
\* tag keyword occurs in that string either (or the call faulted).
C9_NoMatchGivesOther ==
    (c_result # <<>> /\ NoCategoryKeyword)
        => /\ c_result[1].out.category = "other"
           /\ FEq(c_result[1].out.confidence, Frac(1, 10))
           /\ (c_result[1].out.tags = <<>>) <=> (NoTagKeyword \/ ~c_result[1].ready)

C9_Witness ==
    /\ c_result # <<>>
    /\ c_result[1].ready
    /\ NoCategoryKeyword
    /\ c_result[1].out.tags = <<"urgent">>

\* C10: the confidence is 0.1 when every score is 0 (and on the failure path), and
\* max(0.1, min(score / number of keywords, 1.0)) of the winning category
\* otherwise; it always lies in [0.1, 1.0].
C10_ConfidenceFormula ==
    c_result # <<>>
        => LET conf == c_result[1].out.confidence
               table == create_rule_based_classifier
               sc == Scores(table, CombinedOfCall)
           IN  /\ ~FLess(conf, Frac(1, 10))
               /\ ~FLess(Frac(1, 1), conf)
               /\ IF ~c_result[1].ready \/ \A i \in 1..Len(sc) : sc[i] = 0
                  THEN FEq(conf, Frac(1, 10))
                  ELSE \E w \in 1..Len(table) :
                          /\ table[w].name = c_result[1].out.category
                          /\ FEq(conf, FMax(Frac(1, 10),
                                             FMin(Frac(sc[w], Len(table[w].keywords)),
                                                  Frac(1, 1))))

C10_Witness ==
    /\ c_result # <<>>
    /\ c_result[1].ready
    /\ c_result[1].out.category = "technical"
    /\ FEq(c_result[1].out.confidence, Frac(1, 1))


\* the closed set of categories: the ten of the keyword table and 'other'
ClosedCategories ==
    {create_rule_based_classifier[i].name : i \in 1..Len(create_rule_based_classifier)}
        \cup {"other"}

\* how many keywords of each category occur in the string `text`, in table order
HitsIn(text) ==
    [i \in 1..Len(create_rule_based_classifier) |->
        Cardinality({k \in 1..Len(create_rule_based_classifier[i].keywords) :
                        Contains(create_rule_based_classifier[i].keywords[k], text)})]

\* C11: the score of a category is the number of its keywords occurring in the
\* lower-cased "title text" string; the returned category has the maximum score and
\* is the first one, in table order, among those tied at the maximum ('other' when
\* no keyword occurs at all); the result is always in the closed set of 11.
C11_WinningCategory ==
    c_result # <<>>
        => LET out == c_result[1].out
               n == Len(create_rule_based_classifier)
               hits == HitsIn(CombinedOfCall)
           IN  /\ out.category \in ClosedCategories
               /\ Cardinality(ClosedCategories) = 11
               /\ c_result[1].ready
                      => IF \A i \in 1..n : hits[i] = 0
                         THEN out.category = "other"
                         ELSE \E w \in 1..n :
                                 /\ create_rule_based_classifier[w].name = out.category
                                 /\ \A j \in 1..n : hits[j] <= hits[w]
                                 /\ \A j \in 1..(w - 1) : hits[j] < hits[w]

\* a call on a text where two categories tie at a positive maximum
C11_Witness ==
    /\ c_result # <<>>
    /\ c_result[1].ready
    /\ LET hits == HitsIn(CombinedOfCall)
       IN  \E i, j \in 1..Len(create_rule_based_classifier) :
               /\ i < j
               /\ hits[i] = hits[j]
               /\ hits[i] > 0
               /\ \A k \in 1..Len(create_rule_based_classifier) : hits[k] <= hits[i]
               /\ c_result[1].out.category = create_rule_based_classifier[i].name

\* the tags, in table order, with a keyword occurring in the string `text`
TagsHitIn(text) ==
    LET hit == SelectSeq(tag_keywords,
                         LAMBDA r : \E k \in 1..Len(r.keywords) : Contains(r.keywords[k], text))
    IN  [i \in 1..Len(hit) |-> hit[i].name]

\* C12: the tag list is exactly the first five, in table order, of the tags with a
\* keyword occurring in the searched string: no duplicates, at most 5 entries, and
\* 'pending' is the one dropped when all six tags match.
C12_TagExtraction ==
    (c_result # <<>> /\ c_result[1].ready)
        => LET tags == c_result[1].out.tags
               hit == TagsHitIn(CombinedOfCall)
           IN  /\ Len(tags) <= 5
               /\ Len(tags) = (IF Len(hit) < 5 THEN Len(hit) ELSE 5)
               /\ \A i \in 1..Len(tags) : tags[i] = hit[i]
               /\ \A i, j \in 1..Len(tags) : tags[i] = tags[j] => i = j
               /\ Len(hit) = 6
                      => tags = <<"urgent", "confidential", "draft", "final", "expired">>

\* a call on a text in which all six tags match
C12_Witness ==
    /\ c_result # <<>>
    /\ c_result[1].ready
    /\ Len(TagsHitIn(CombinedOfCall)) = 6
    /\ Len(c_result[1].out.tags) = 5

----------------------------------------------------------------------------
(* A series of classify_document calls on one ClassificationService.       *)

\* calls that have returned before the current one
MaxCalls == 3

\* the (title, text) arguments the calls of a series are drawn from
CallInputs ==
    << [title |-> <<>>, text |-> Fragments[6]],
       [title |-> <<"I", "n", "v", "o", "i", "c", "e">>, text |-> Fragments[2]],
       [title |-> <<>>, text |-> Fragments[2]],
       [title |-> <<"Q", "u", "a", "r", "t", "e", "r", "l", "y", " ", "R", "e", "p", "o", "r", "t">>,
        text |-> Fragments[5]],
       [title |-> <<>>, text |-> Fragments[7]],
       [title |-> <<"p", "a", "s", "t">>, text |-> Fragments[3]] >>

\* the current call has returned; the caller prepares a further call
NewCall ==
    /\ c_result # <<>>
    /\ Len(c_log) < MaxCalls
    /\ c_log' = Append(c_log, [title |-> c_title, text |-> c_text,
                               ready |-> c_result[1].ready, inits |-> c_result[1].inits,
                               out |-> c_result[1].out])
    /\ \E i \in 1..Len(CallInputs) :
           /\ c_title' = CallInputs[i].title
           /\ c_text' = CallInputs[i].text
    /\ c_result' = <<>>
    /\ UNCHANGED <<classifier, c_frags, c_inits>>
    /\ UNCHANGED pvars
    /\ UNCHANGED <<hvars, ovars, evars, nvars>>

NextCalls == initialize \/ ClassifyCall \/ NewCall

SpecCalls == InitClassify /\ [][NextCalls]_vars

\* the calls that have returned, the current one last
ReturnedCalls ==
    IF c_result = <<>>
    THEN c_log
    ELSE Append(c_log, [title |-> c_title, text |-> c_text,
                        ready |-> c_result[1].ready, inits |-> c_result[1].inits,
                        out |-> c_result[1].out])

\* two calls with the same arguments, only classify_document calls between them
\* (no initialize() completed from one to the other), returned the same result
SameInputSameOutput ==
    \A i, j \in 1..Len(ReturnedCalls) :
        (/\ ReturnedCalls[i].title = ReturnedCalls[j].title
         /\ ReturnedCalls[i].text = ReturnedCalls[j].text
         /\ ReturnedCalls[i].inits = ReturnedCalls[j].inits)
            => ReturnedCalls[i].out = ReturnedCalls[j].out

\* the service's state is what its initialize() calls left: None before the
\* first, the table of _create_rule_based_classifier after it
TableAsLoaded ==
    classifier = IF c_inits = 0 THEN NoClassifier ELSE <<create_rule_based_classifier>>

\* C13: classify_document is idempotent and history-independent: two calls with the
\* same text and title return the same category, confidence and tags whatever
\* classify_document calls were made in between, and the calls leave the keyword
\* table (the service's only state) as initialize() loaded it.
C13_Idempotent ==
    /\ SameInputSameOutput
    /\ TableAsLoaded

\* the same arguments classified twice with a different call in between
C13_Witness ==
    /\ Len(ReturnedCalls) >= 3
    /\ \E i, j, k \in 1..Len(ReturnedCalls) :
           /\ i < k
           /\ k < j
           /\ ReturnedCalls[i].ready
           /\ ReturnedCalls[j].ready
           /\ ReturnedCalls[i].title = ReturnedCalls[j].title
           /\ ReturnedCalls[i].text = ReturnedCalls[j].text
           /\ ReturnedCalls[k].text # ReturnedCalls[i].text
           /\ ReturnedCalls[k].out.category # ReturnedCalls[i].out.category
           /\ ReturnedCalls[i].out.category # "other"

----------------------------------------------------------------------------
(* RAGService.chat behind POST /rag/chat.                                  *)

\* /rag/chat requests served
MaxTurns == 2

\* characters of content used for a context part, and for an excerpt
ContextChars == 500
ExcerptChars == 200

NoRelevantDocuments == "No relevant documents found."
Apology ==
    "I apologize, but I encountered an error while generating a response. Please try again."

\* the object index_document creates for a processed sample document
IndexedObject(d, summary_) ==
    [title |-> SampleOf(d).title,
     content |-> FileAt(d),
     summary |-> summary_,
     category |-> classify_document(RuleBased, FileAt(d), SampleOf(d).title).category,
     tags |-> <<>>,
     document_id |-> d]

\* vector-store contents left by earlier process_document runs: none, one run per
\* sample document, and a further run on document 1 whose summary failed
EmptyStore == <<>>
StoreOfTwoRuns == <<IndexedObject(1, ModelSummary), IndexedObject(2, "")>>
StoreOfThreeRuns == Append(StoreOfTwoRuns, IndexedObject(1, SummaryFailed))
ChatStores == {EmptyStore, StoreOfTwoRuns, StoreOfThreeRuns}

\* requests the ChatRequest schema accepts: query of length >= 1, optional
\* document_id, context_limit <= 10, optional conversation_id
Queries == {"what is due?"}
ChatDocumentIds == {None, Some(0), Some(1), Some(2)}
ContextLimits == {-1, 0, 1, 2, 5, 10}
ClientConversationIds ==
    {None, Some(<<"client", 0>>)} \cup {Some(issued_ids[i]) : i \in 1..Len(issued_ids)}

\* `if document_id:` -- None and 0 are both falsy, so neither adds the where filter
with_where(document_id_) ==
    IF document_id_ # None /\ document_id_[1] # 0 THEN document_id_ ELSE None

\* A bug _search_relevant_documents could have: the filter is never added.
with_where_never(document_id_) == None

\* positions of the vector store's objects that satisfy the where filter
Matching(store, where) ==
    {i \in 1..Len(store) : where = None \/ store[i].document_id = where[1]}

\* the rankings a nearText query with this limit and filter can return: the `limit`
\* nearest matching objects, in an order the embedding decides
Rankings(store, where, limit) ==
    LET m == Matching(store, where)
        k == IF Cardinality(m) < limit THEN Cardinality(m) ELSE limit
    IN  {r \in [1..k -> m] : \A i, j \in 1..k : r[i] = r[j] => i = j}

\* what building and executing the search can do.  The client's with_limit rejects
\* a limit below 1 (ValueError); the execution can raise, answer without a "data"
\* part, answer with result["data"]["Get"]["Document"] null (a query that failed
\* inside the store), or answer with a ranking.
SearchOutcomes(store, where, limit) ==
    IF limit < 1
    THEN {[kind |-> "raise", ranking |-> <<>>]}
    ELSE {[kind |-> k, ranking |-> <<>>] : k \in {"raise", "nodata", "null"}}
         \cup {[kind |-> "ranking", ranking |-> r] : r \in Rankings(store, where, limit)}

\* what _search_relevant_documents returns: a list of documents, or None
DocList(documents) == [is_none |-> FALSE, docs |-> documents]
NoneResult == [is_none |-> TRUE, docs |-> <<>>]

\* _search_relevant_documents: result["data"]["Get"]["Document"] whatever it is, []
\* when a key is missing and on any exception
search_relevant_documents(store, outcome) ==
    IF outcome.kind = "ranking"
    THEN DocList([i \in 1..Len(outcome.ranking) |-> store[outcome.ranking[i]]])
    ELSE IF outcome.kind = "null" THEN NoneResult
    ELSE DocList(<<>>)

\* `summary if summary else content[:500]`
ContextText(doc) ==
    IF doc.summary # ""
    THEN [summary |-> doc.summary, content |-> <<>>]
    ELSE [summary |-> "", content |-> Take(doc.content, ContextChars)]

\* _build_context: `if not documents` holds of None and of the empty list
build_context(documents) ==
    IF documents.is_none \/ documents.docs = <<>>
    THEN [literal |-> NoRelevantDocuments, parts |-> <<>>]
    ELSE [literal |-> "",
          parts |-> [i \in 1..Len(documents.docs) |->
                        [n |-> i, title |-> documents.docs[i].title,
                         text |-> ContextText(documents.docs[i])]]]

\* _generate_response: the model's answer to (query, context), the apology on failure
generate_response(query, context, outcome) ==
    IF outcome = "ok"
    THEN [fixed |-> "", generated |-> Some([query |-> query, context |-> context])]
    ELSE [fixed |-> Apology, generated |-> None]

\* the sources list of chat
chat_sources(documents) ==
    [i \in 1..Len(documents) |->
        [document_id |-> documents[i].document_id,
         title |-> documents[i].title,
         excerpt |-> [head |-> Take(documents[i].content, ExcerptChars), tail |-> "..."],
         relevance |-> Frac(8, 10)]]

\* len(relevant_docs) / context_limit as a fraction with a positive denominator
Quotient(n, limit) == IF limit < 0 THEN Frac(0 - n, 0 - limit) ELSE Frac(n, limit)

\* A bug chat could have: dividing by the default context_limit.
chat_confidence_default_limit(n, limit) == FMin(Frac(n, 5), One)

\* min(len(relevant_docs) / context_limit, 1.0); the division raises when limit = 0
chat_confidence(n, limit) == FMin(Quotient(n, limit), One)

\* POST /rag/chat arrives with a request the schema accepts
ChatRequest ==
    /\ chat_pc \in {"idle", "done"}
    /\ chat_turns < MaxTurns
    /\ \E q \in Queries, d \in ChatDocumentIds, l \in ContextLimits,
          c \in ClientConversationIds :
           chat_request' = [query |-> q, document_id |-> d, context_limit |-> l,
                            conversation_id |-> c]
    /\ chat_turns' = chat_turns + 1
    /\ chat_pc' = "search"
    /\ search_query' = None
    /\ search_outcome' = [kind |-> "none", ranking |-> <<>>]
    /\ relevant_docs' = DocList(<<>>)
    /\ llm_context' = None
    /\ response_text' = NoAnswer
    /\ chat_response' = NoChatResponse
    /\ UNCHANGED issued_ids
    /\ UNCHANGED <<cvars, pvars, lvars, ovars, evars, nvars>>

\* A bug _search_relevant_documents could have: an exception of the search escapes.
SearchRelevantDocuments_propagates ==
    /\ chat_pc = "search"
    /\ LET where == with_where(chat_request.document_id)
           limit == chat_request.context_limit
       IN  \E outcome \in SearchOutcomes(weaviate, where, limit) :
               /\ search_outcome' = outcome
               /\ search_query' = IF limit < 1 THEN None
                                  ELSE Some([limit |-> limit, where |-> where])
               /\ relevant_docs' = search_relevant_documents(weaviate, outcome)
               /\ IF outcome.kind = "raise"
                  THEN /\ chat_response' = [status_code |-> 500,
                                            detail |-> <<"Chat failed", "search">>]
                       /\ chat_pc' = "done"
                  ELSE /\ chat_pc' = "generate"
                       /\ UNCHANGED chat_response
    /\ UNCHANGED <<chat_turns, chat_request, llm_context, response_text, issued_ids>>
    /\ UNCHANGED <<cvars, pvars, lvars, ovars, evars, nvars>>

\* chat calls _search_relevant_documents
SearchRelevantDocuments ==
    /\ chat_pc = "search"
    /\ LET where == with_where(chat_request.document_id)
           limit == chat_request.context_limit
       IN  \E outcome \in SearchOutcomes(weaviate, where, limit) :
               /\ search_outcome' = outcome
               /\ search_query' = IF limit < 1 THEN None
                                  ELSE Some([limit |-> limit, where |-> where])
               /\ relevant_docs' = search_relevant_documents(weaviate, outcome)
    /\ chat_pc' = "generate"
    /\ UNCHANGED <<chat_turns, chat_request, llm_context, response_text, chat_response,
                   issued_ids>>
    /\ UNCHANGED <<cvars, pvars, lvars, ovars, evars, nvars>>

\* chat builds the context and calls _generate_response
GenerateResponse ==
    /\ chat_pc = "generate"
    /\ llm_context' = Some(build_context(relevant_docs))
    /\ \E outcome \in {"ok", "raise"} :
           response_text' = generate_response(chat_request.query,
                                              build_context(relevant_docs), outcome)
    /\ chat_pc' = "respond"
    /\ UNCHANGED <<chat_turns, chat_request, search_query, search_outcome, relevant_docs,
                   chat_response, issued_ids>>
    /\ UNCHANGED <<cvars, pvars, lvars, ovars, evars, nvars>>

\* A bug chat could have: continuing the conversation the client names.
ChatResponseOf_echoes_conversation(text, documents, limit, turn) ==
    [status_code |-> 200,
     response |-> text,
     sources |-> chat_sources(documents),
     confidence |-> chat_confidence(Len(documents), limit),
     conversation_id |-> IF chat_request.conversation_id # None
                         THEN chat_request.conversation_id[1]
                         ELSE <<"uuid", turn>>]

\* the ChatResponse of a turn; uuid4 gives an id no earlier response carried
ChatResponseOf(text, documents, limit, turn) ==
    [status_code |-> 200,
     response |-> text,
     sources |-> chat_sources(documents),
     confidence |-> chat_confidence(Len(documents), limit),
     conversation_id |-> <<"uuid", turn>>]

\* chat computes the confidence and the sources and returns; the TypeError of
\* len(None) and the ZeroDivisionError of the confidence are re-raised by chat and
\* answered 500 by chat_with_documents
ChatRespond ==
    /\ chat_pc = "respond"
    /\ IF relevant_docs.is_none
       THEN /\ chat_response' =
                   [status_code |-> 500,
                    detail |-> <<"Chat failed", "object of type 'NoneType' has no len()">>]
            /\ UNCHANGED issued_ids
       ELSE IF chat_request.context_limit = 0
       THEN /\ chat_response' = [status_code |-> 500,
                                 detail |-> <<"Chat failed", "division by zero">>]
            /\ UNCHANGED issued_ids
       ELSE /\ chat_response' = ChatResponseOf(response_text, relevant_docs.docs,
                                               chat_request.context_limit, chat_turns)
            /\ issued_ids' = Append(issued_ids, <<"uuid", chat_turns>>)
    /\ chat_pc' = "done"
    /\ UNCHANGED <<chat_turns, chat_request, search_query, search_outcome, relevant_docs,
                   llm_context, response_text>>
    /\ UNCHANGED <<cvars, pvars, lvars, ovars, evars, nvars>>

NextChat == ChatRequest \/ SearchRelevantDocuments \/ GenerateResponse \/ ChatRespond

\* the chat endpoint after startup, the vector store holding earlier runs' objects
InitChat ==
    /\ classifier = RuleBased
    /\ c_title = <<>>
    /\ c_text = <<>>
    /\ c_frags = 0
    /\ c_result = <<>>
    /\ c_inits = 1
    /\ docs = [d \in DocIds |-> create_document(d)]
    /\ weaviate \in ChatStores
    /\ pc = [p \in Runs |-> "idle"]
    /\ document_id = [p \in Runs |-> 0]
    /\ document = [p \in Runs |-> NoDocument]
    /\ file_content = [p \in Runs |-> <<>>]
    /\ extracted_text = [p \in Runs |-> <<>>]
    /\ nlp_analysis = [p \in Runs |-> <<>>]
    /\ classification = [p \in Runs |-> NoClassification]
    /\ summary = [p \in Runs |-> ""]
    /\ exc = [p \in Runs |-> <<>>]
    /\ response = [p \in Runs |-> NoResponse]
    /\ trace = [p \in Runs |-> <<>>]
    /\ InitOtherVars

SpecChat == InitChat /\ [][NextChat]_vars


----------------------------------------------------------------------------
(* Properties of chat (specification SpecChat).                            *)

\* the turn has ended with a ChatResponse / with HTTP 500
Responded == chat_pc = "done" /\ chat_response.status_code = 200
ChatFailed == chat_pc = "done" /\ chat_response.status_code = 500

\* the search of the turn is over
Searched == chat_pc \in {"generate", "respond", "done"}
\* the generative model has been invoked
Generated == chat_pc \in {"respond", "done"}

NoRelevantContext == [literal |-> "No relevant documents found.", parts |-> <<>>]

\* c = min(n / limit, 1.0), for limit # 0
IsMinOfQuotient(c, n, limit) ==
    IF limit > 0 /\ n >= limit
    THEN c.num = c.den
    ELSE c.num * limit = n * c.den

\* C14: the confidence of a chat response is min(retrieved / context_limit, 1.0)
\* (3 retrieved with limit 5 gives 0.6); with 0 documents retrieved the generative
\* model is invoked with exactly 'No relevant documents found.' and the confidence
\* of the response is 0.0.
C14_ChatConfidence ==
    /\ Responded
           => /\ IsMinOfQuotient(chat_response.confidence, Len(relevant_docs.docs),
                                 chat_request.context_limit)
              /\ (Len(relevant_docs.docs) = 3 /\ chat_request.context_limit = 5)
                     => FEq(chat_response.confidence, Frac(6, 10))
              /\ Len(relevant_docs.docs) = 0 => chat_response.confidence.num = 0
    /\ (Generated /\ Len(relevant_docs.docs) = 0) => llm_context = Some(NoRelevantContext)

\* a response on 3 retrieved documents with context_limit 5
C14_Witness ==
    /\ Responded
    /\ Len(relevant_docs.docs) = 3
    /\ chat_request.context_limit = 5
    /\ FEq(chat_response.confidence, Frac(6, 10))

\* C15: every chat request the schema accepts (any context_limit <= 10, 0 and
\* negative values included) is answered with a ChatResponse whose confidence lies
\* in [0, 1].
C15_EveryRequestAnswered ==
    chat_pc = "done"
        => /\ chat_response.status_code = 200
           /\ ~FLess(chat_response.confidence, Frac(0, 1))
           /\ ~FLess(Frac(1, 1), chat_response.confidence)

\* C16: when the vector-store search raises (context_limit >= 1) the turn still
\* ends with a response: no sources, confidence 0.0, and the generative model
\* invoked with 'No relevant documents found.'.
C16_RetrievalFailureAbsorbed ==
    (search_outcome.kind = "raise" /\ chat_request.context_limit >= 1)
        => /\ Generated => llm_context = Some(NoRelevantContext)
           /\ chat_pc = "done"
                  => /\ chat_response.status_code = 200
                     /\ chat_response.sources = <<>>
                     /\ chat_response.confidence.num = 0

\* a turn answered although its search raised on a non-empty vector store
C16_Witness ==
    /\ Responded
    /\ search_outcome.kind = "raise"
    /\ chat_request.context_limit >= 1
    /\ weaviate # <<>>
    /\ response_text.generated = Some([query |-> chat_request.query,
                                       context |-> NoRelevantContext])

\* C17: when the generative model call raises the turn still ends with a response:
\* the answer is the fixed apology, the sources are one per retrieved document in
\* retrieval order and the confidence is the one computed from them.
C17_GenerationFailureAbsorbed ==
    (chat_pc = "done" /\ response_text.generated = None)
        => /\ chat_response.status_code = 200
           /\ chat_response.response.generated = None
           /\ chat_response.response.fixed =
                  "I apologize, but I encountered an error while generating a response. Please try again."
           /\ Len(chat_response.sources) = Len(relevant_docs.docs)
           /\ \A i \in 1..Len(relevant_docs.docs) :
                  /\ chat_response.sources[i].document_id = relevant_docs.docs[i].document_id
                  /\ chat_response.sources[i].title = relevant_docs.docs[i].title
           /\ IsMinOfQuotient(chat_response.confidence, Len(relevant_docs.docs),
                              chat_request.context_limit)

\* C18: a request carrying a document_id (0 included) has its query issued with the
\* equality filter on that id and with limit context_limit, so every source has
\* that document_id and there are at most context_limit sources; without a
\* document_id no filter is applied.
C18_DocumentScoping ==
    Searched
        => /\ search_query # None
                  => /\ search_query[1].limit = chat_request.context_limit
                     /\ search_query[1].where = chat_request.document_id
           /\ chat_request.document_id # None
                  => \A i \in 1..Len(relevant_docs.docs) :
                         relevant_docs.docs[i].document_id = chat_request.document_id[1]
           /\ chat_request.context_limit >= 1
                  => Len(relevant_docs.docs) <= chat_request.context_limit

\* the documents the turn's search returned, read off the vector store as it is now
RetrievedNow ==
    IF search_outcome.kind = "ranking"
    THEN [i \in 1..Len(search_outcome.ranking) |-> weaviate[search_outcome.ranking[i]]]
    ELSE <<>>

\* answer, sources and confidence are those of this request, the current vector
\* store, the search's answer and the model's output
DeterminedByTurn ==
    Responded
        => /\ chat_response.response =
                  (IF response_text.generated = None
                   THEN [fixed |-> Apology, generated |-> None]
                   ELSE [fixed |-> "",
                         generated |-> Some([query |-> chat_request.query,
                                             context |-> build_context(DocList(RetrievedNow))])])
           /\ chat_response.sources = chat_sources(RetrievedNow)
           /\ IsMinOfQuotient(chat_response.confidence, Len(RetrievedNow),
                              chat_request.context_limit)

\* every response carried an id no earlier response carried, and not the client's
FreshConversationIds ==
    /\ \A i, j \in 1..Len(issued_ids) : issued_ids[i] = issued_ids[j] => i = j
    /\ Responded => Some(chat_response.conversation_id) # chat_request.conversation_id

\* C19: chat keeps no conversation state: answer, sources and confidence depend
\* only on the request, the current vector store and the model's output, not on
\* earlier turns or the client's conversation_id; every response carries a fresh
\* conversation_id; a turn writes neither the vector store nor the document store.
C19_NoConversationState ==
    [][/\ DeterminedByTurn'
       /\ FreshConversationIds'
       /\ weaviate' = weaviate
       /\ docs' = docs]_vars

\* a second turn answered for a client that sent back the first turn's id
C19_Witness ==
    /\ Responded
    /\ chat_turns = 2
    /\ Len(issued_ids) = 2
    /\ chat_request.conversation_id = Some(issued_ids[1])
    /\ Len(relevant_docs.docs) >= 1

----------------------------------------------------------------------------
(* OCRService._extract_from_pdf: direct text per page, OCR where there is none. *)

\* pages of a PDF
MaxPages == 3

\* str(n) for the page numbers of the headers
DecimalDigits == <<"0", "1", "2", "3", "4", "5", "6", "7", "8", "9">>
Decimal(n) ==
    IF n < 10 THEN <<DecimalDigits[n + 1]>>
    ELSE <<DecimalDigits[(n \div 10) + 1], DecimalDigits[(n % 10) + 1]>>

\* f"\n--- Page {page_num + 1} ---\n{page_text}\n"
PlainSection(n, page_text) ==
    <<"\n", "-", "-", "-", " ", "P", "a", "g", "e", " ">> \o Decimal(n)
        \o <<" ", "-", "-", "-", "\n">> \o page_text \o <<"\n">>

\* f"\n--- Page {page_num + 1} (OCR) ---\n{ocr_text}\n"
OcrSection(n, ocr_text) ==
    <<"\n", "-", "-", "-", " ", "P", "a", "g", "e", " ">> \o Decimal(n)
        \o <<" ", "(", "O", "C", "R", ")", " ", "-", "-", "-", "\n">> \o ocr_text \o <<"\n">>

\* A bug _extract_from_pdf could have: testing `not page_text` without the strip.
HasDirectText_no_strip(page_text) == page_text # <<>>

\* the negation of `not page_text.strip()`
HasDirectText(page_text) == ~IsBlank(page_text)

\* _ocr_image on a rendered page: what pytesseract reads, stripped
ocr_image(scan) == Strip(scan)

\* pages a PDF is made of: the text layer page.get_text() returns, and what
\* pytesseract reads from the rendered page
PageKinds ==
    { [text |-> <<"a", "b">>, scan |-> <<"a", "b">>],
      [text |-> <<"c", "\n">>, scan |-> <<>>],
      [text |-> <<>>, scan |-> <<" ", "x", "\n">>],
      [text |-> <<" ", "\n">>, scan |-> <<>>],
      [text |-> <<"\r", "\n">>, scan |-> <<"x", "\n", "\f">>] }

Pdfs == UNION {[1..n -> PageKinds] : n \in 0..MaxPages}

\* _extract_from_pdf is called: fitz.open succeeds or raises
OpenPdf ==
    /\ pdf_pc = "idle"
    /\ \E outcome \in {"ok", "raise"} :
           pdf_pc' = IF outcome = "ok" THEN "pages" ELSE "raised"
    /\ UNCHANGED <<pdf_pages, page_num, pdf_text, ocr_calls, pdf_result>>
    /\ UNCHANGED <<cvars, pvars, lvars, hvars, evars, nvars>>

\* a loop iteration on a page with a text layer
DirectPage ==
    /\ pdf_pc = "pages"
    /\ page_num < Len(pdf_pages)
    /\ HasDirectText(pdf_pages[page_num + 1].text)
    /\ pdf_text' = pdf_text \o PlainSection(page_num + 1, pdf_pages[page_num + 1].text)
    /\ page_num' = page_num + 1
    /\ UNCHANGED <<pdf_pages, pdf_pc, ocr_calls, pdf_result>>
    /\ UNCHANGED <<cvars, pvars, lvars, hvars, evars, nvars>>

\* a loop iteration on a page without text: the page is rendered and _ocr_image
\* called, whose exception ends the extraction
OcrPage ==
    /\ pdf_pc = "pages"
    /\ page_num < Len(pdf_pages)
    /\ ~HasDirectText(pdf_pages[page_num + 1].text)
    /\ ocr_calls' = Append(ocr_calls, page_num + 1)
    /\ \E outcome \in {"ok", "raise"} :
           IF outcome = "ok"
           THEN /\ pdf_text' = pdf_text \o OcrSection(page_num + 1,
                                                      ocr_image(pdf_pages[page_num + 1].scan))
                /\ page_num' = page_num + 1
                /\ UNCHANGED pdf_pc
           ELSE /\ pdf_pc' = "raised"
                /\ UNCHANGED <<pdf_text, page_num>>
    /\ UNCHANGED <<pdf_pages, pdf_result>>
    /\ UNCHANGED <<cvars, pvars, lvars, hvars, evars, nvars>>

\* the loop is over: doc.close(); return text.strip()
ReturnPdfText ==
    /\ pdf_pc = "pages"
    /\ page_num = Len(pdf_pages)
    /\ pdf_result' = <<Strip(pdf_text)>>
    /\ pdf_pc' = "done"
    /\ UNCHANGED <<pdf_pages, page_num, pdf_text, ocr_calls>>
    /\ UNCHANGED <<cvars, pvars, lvars, hvars, evars, nvars>>

NextPdf == OpenPdf \/ DirectPage \/ OcrPage \/ ReturnPdfText

\* a call of _extract_from_pdf on some PDF
InitPdf ==
    /\ InitClassifyVars
    /\ InitPipelineVars
    /\ InitCallLog
    /\ InitChatVars
    /\ InitPdfCall
    /\ pdf_pages \in Pdfs
    /\ InitNlpCalls
    /\ InitExtractCall
    /\ ex_request = NoExtractRequest

SpecPdf == InitPdf /\ [][NextPdf]_vars

(* Properties of _extract_from_pdf (specification SpecPdf).                *)

\* page i has no direct text: its text layer is empty or whitespace only
NoDirectText(i) == \A k \in 1..Len(pdf_pages[i].text) : pdf_pages[i].text[k] \in WhiteSpace

\* section i as claimed: 'Page i (OCR)' with the OCR text for a page without direct
\* text, 'Page i' with the direct text otherwise
ClaimedSection(i) ==
    IF NoDirectText(i)
    THEN OcrSection(i, Strip(pdf_pages[i].scan))
    ELSE PlainSection(i, pdf_pages[i].text)

RECURSIVE ClaimedSections(_)
ClaimedSections(n) == IF n = 0 THEN <<>> ELSE ClaimedSections(n - 1) \o ClaimedSection(n)

\* the pages without direct text among the first n, in page order
RECURSIVE PagesWithoutText(_)
PagesWithoutText(n) ==
    IF n = 0 THEN <<>>
    ELSE IF NoDirectText(n) THEN Append(PagesWithoutText(n - 1), n)
    ELSE PagesWithoutText(n - 1)

\* C20: for a PDF of n pages the output is the n sections of pages 1..n in order
\* (stripped as a whole); section i is headed 'Page i (OCR)' and holds the OCR text
\* exactly when page i has no direct text, and is headed 'Page i' with the direct
\* text otherwise; the OCR engine is invoked exactly for the pages without text.
C20_PerPageOcrFallback ==
    /\ ocr_calls = PagesWithoutText(IF pdf_pc = "raised" /\ ocr_calls # <<>>
                                    THEN ocr_calls[Len(ocr_calls)] ELSE page_num)
    /\ pdf_result # <<>>
           => /\ pdf_result[1] = Strip(ClaimedSections(Len(pdf_pages)))
              /\ ocr_calls = PagesWithoutText(Len(pdf_pages))

\* a three-page PDF whose page 2 alone had to be read by OCR
C20_Witness ==
    /\ pdf_result # <<>>
    /\ Len(pdf_pages) = 3
    /\ ocr_calls = <<2>>
    /\ pdf_pages[2].text = <<" ", "\n">>

----------------------------------------------------------------------------
(* OCRService.extract_text: dispatch on the content type.                  *)

Pdf == [major |-> "application", minor |-> "pdf"]
PlainText == [major |-> "text", minor |-> "plain"]
ContentTypes ==
    {Pdf, PlainText, [major |-> "image", minor |-> "png"],
     [major |-> "image", minor |-> "jpeg"], [major |-> "application", minor |-> "msword"],
     [major |-> "text", minor |-> "html"]}

\* what a payload holds: the decoded text / what the OCR engine reads / the
\* 'content' of the Tika parse
TextSamples ==
    {<<>>, <<" ", "\n">>, <<"a", "b">>, <<" ", "x", "\n">>, <<"\r", "\n">>, <<"x", "\n", "\f">>}

\* payloads: text, bytes that are not UTF-8 ("invalid"), and for the Tika parse a
\* result without 'content' ("missing") or with content None ("none")
Payloads ==
    {[kind |-> "text", chars |-> t] : t \in TextSamples}
        \cup {[kind |-> k, chars |-> <<>>] : k \in {"invalid", "missing", "none"}}

\* the branch extract_text takes
Dispatch(content_type) ==
    IF content_type = Pdf THEN "pdf"
    ELSE IF content_type.major = "image" THEN "image"
    ELSE IF content_type = PlainText THEN "plain"
    ELSE "tika"

\* the calls of extract_text considered
ExtractRequests ==
    {r \in [content_type : ContentTypes, payload : Payloads] :
        /\ Dispatch(r.content_type) = "pdf" => r.payload = [kind |-> "text", chars |-> <<>>]
        /\ Dispatch(r.content_type) = "image" => r.payload.kind = "text"
        /\ Dispatch(r.content_type) = "plain" => r.payload.kind \in {"text", "invalid"}
        /\ Dispatch(r.content_type) = "tika" => r.payload.kind # "invalid"}

Returned(text) == <<[raised |-> FALSE, text |-> text]>>
Raised == <<[raised |-> TRUE, text |-> <<>>]>>

\* extract_text is called and dispatches
ExtractTextCall ==
    /\ ex_pc = "idle"
    /\ ex_pc' = Dispatch(ex_request.content_type)
    /\ pdf_pc' = IF Dispatch(ex_request.content_type) = "pdf" THEN "idle" ELSE pdf_pc
    /\ UNCHANGED <<ex_request, ex_result, tmp_files>>
    /\ UNCHANGED <<pdf_pages, page_num, pdf_text, ocr_calls, pdf_result>>
    /\ UNCHANGED <<cvars, pvars, lvars, hvars, nvars>>

\* _extract_from_pdf has returned or raised; extract_text passes that on
ExtractFromPdfEnds ==
    /\ ex_pc = "pdf"
    /\ pdf_pc \in {"done", "raised"}
    /\ ex_result' = IF pdf_pc = "done" THEN Returned(pdf_result[1]) ELSE Raised
    /\ ex_pc' = "done"
    /\ UNCHANGED <<ex_request, tmp_files>>
    /\ UNCHANGED <<cvars, pvars, lvars, hvars, ovars, nvars>>

\* _extract_from_image: _ocr_image returns the stripped OCR text or raises
ExtractFromImage ==
    /\ ex_pc = "image"
    /\ \E outcome \in {"ok", "raise"} :
           ex_result' = IF outcome = "ok" THEN Returned(ocr_image(ex_request.payload.chars))
                        ELSE Raised
    /\ ex_pc' = "done"
    /\ UNCHANGED <<ex_request, tmp_files>>
    /\ UNCHANGED <<cvars, pvars, lvars, hvars, ovars, nvars>>

\* file_content.decode('utf-8'): the text, or UnicodeDecodeError
DecodePlainText ==
    /\ ex_pc = "plain"
    /\ ex_result' = IF ex_request.payload.kind = "text" THEN Returned(ex_request.payload.chars)
                    ELSE Raised
    /\ ex_pc' = "done"
    /\ UNCHANGED <<ex_request, tmp_files>>
    /\ UNCHANGED <<cvars, pvars, lvars, hvars, ovars, nvars>>

\* _extract_with_tika creates the temporary file and writes the payload to it; a
\* failing write leaves the function before the try/finally that unlinks the file
TikaWriteTempFile ==
    /\ ex_pc = "tika"
    /\ tmp_files' = tmp_files + 1
    /\ \E outcome \in {"ok", "raise"} :
           IF outcome = "ok"
           THEN /\ ex_pc' = "tika_parse"
                /\ UNCHANGED ex_result
           ELSE /\ ex_pc' = "done"
                /\ ex_result' = Raised
    /\ UNCHANGED ex_request
    /\ UNCHANGED <<cvars, pvars, lvars, hvars, ovars, nvars>>

\* `if text:` on parsed.get('content', '')
HasContent(payload) == payload.kind = "text" /\ payload.chars # <<>>

\* parser.from_file and the reading of its content; the finally clause unlinks the
\* temporary file whatever happened
TikaParse ==
    /\ ex_pc = "tika_parse"
    /\ \E outcome \in {"ok", "raise"} :
           ex_result' = IF outcome = "ok" /\ HasContent(ex_request.payload)
                        THEN Returned(Strip(ex_request.payload.chars))
                        ELSE Raised
    /\ tmp_files' = tmp_files - 1
    /\ ex_pc' = "done"
    /\ UNCHANGED ex_request
    /\ UNCHANGED <<cvars, pvars, lvars, hvars, ovars, nvars>>

NextExtract ==
    \/ ExtractTextCall
    \/ OpenPdf \/ DirectPage \/ OcrPage \/ ReturnPdfText
    \/ ExtractFromPdfEnds
    \/ ExtractFromImage
    \/ DecodePlainText
    \/ TikaWriteTempFile
    \/ TikaParse

\* a call of extract_text on some content type and payload
InitExtract ==
    /\ InitClassifyVars
    /\ InitPipelineVars
    /\ InitCallLog
    /\ InitChatVars
    /\ InitExtractCall
    /\ InitNlpCalls
    /\ ex_request \in ExtractRequests
    /\ pdf_pages \in (IF Dispatch(ex_request.content_type) = "pdf" THEN Pdfs ELSE {<<>>})
    /\ pdf_pc = "not called"
    /\ page_num = 0
    /\ pdf_text = <<>>
    /\ ocr_calls = <<>>
    /\ pdf_result = <<>>

SpecExtract == InitExtract /\ [][NextExtract]_vars

(* Properties of extract_text (specification SpecExtract).                 *)

\* the call is over and returned a text
ExtractReturned == ex_result # <<>> /\ ~ex_result[1].raised

\* C21: on every dispatch path extract_text either returns text that is neither
\* empty nor whitespace-only, or raises; it never returns an empty string.
C21_NeverReturnsEmpty ==
    ExtractReturned
        => \E i \in 1..Len(ex_result[1].text) : ex_result[1].text[i] \notin WhiteSpace

\* C26: the fallback extractor returns non-empty text or raises: it raises when the
\* parser yields no content (missing, None or empty), never returns an empty
\* string for whitespace-only content, and its temporary file is gone when it ends.
C26_TikaFallback ==
    (Dispatch(ex_request.content_type) = "tika" /\ ex_pc = "done")
        => /\ (ex_request.payload.kind \in {"missing", "none"}
                   \/ ex_request.payload.chars = <<>>) => ex_result[1].raised
           /\ ~ex_result[1].raised => ex_result[1].text # <<>>
           /\ tmp_files = 0

----------------------------------------------------------------------------
(* NLPService.generate_summary, statement by statement.                    *)

MaxSummaries == 3

MaxInputLength == 3000

SummaryFailedText ==
    <<"S", "u", "m", "m", "a", "r", "y", " ", "g", "e", "n", "e", "r", "a", "t", "i", "o", "n",
      " ", "f", "a", "i", "l", "e", "d">>

\* the texts generate_summary is called with
SummaryTexts ==
    {<<>>, <<" ">>, <<"\n", "\t", " ">>, <<"\r", "\n">>, <<"\f">>, <<"a", "b">>, <<" ", "x", "\n">>}

\* what the model call gives: an exception, a response without choices
\* (choices[0] raises IndexError), a message whose content is None (.strip()
\* raises AttributeError), or a message with content, which may be the text of
\* the failure string itself
ModelOutcomes ==
    {[kind |-> k, content |-> <<>>] : k \in {"raise", "no_choices", "no_content"}}
        \cup {[kind |-> "reply", content |-> c] :
                 c \in {<<>>, <<"o", "k">>, <<" ", "o", "k", "\r", "\n">>, <<" ">>,
                        SummaryFailedText, SummaryFailedText \o <<"\n">>}}

\* text[:max_input_length] + "..." for a text longer than max_input_length
Truncated(text) ==
    IF Len(text) > MaxInputLength THEN Take(text, MaxInputLength) \o <<".", ".", ".">>
    ELSE text

\* a call of generate_summary; the outcome of the call before it goes to the log
SummaryRequest ==
    /\ sum_pc \in {"idle", "done"}
    /\ Len(sum_log) + Len(sum_result) < MaxSummaries
    /\ \E text \in SummaryTexts : sum_text' = text
    /\ sum_log' = sum_log \o sum_result
    /\ sum_result' = <<>>
    /\ sum_model_calls' = <<>>
    /\ sum_pc' = "called"
    /\ UNCHANGED <<an_pc, an_doc, an_entities, an_keywords>>
    /\ UNCHANGED <<cvars, pvars, lvars, hvars, ovars, evars>>

\* A bug generate_summary could have: no test for a blank text.
SummaryBlankTest_absent ==
    /\ sum_pc = "called"
    /\ sum_pc' = "model"
    /\ UNCHANGED <<sum_text, sum_model_calls, sum_result, sum_log>>
    /\ UNCHANGED <<an_pc, an_doc, an_entities, an_keywords>>
    /\ UNCHANGED <<cvars, pvars, lvars, hvars, ovars, evars>>

\* `if not text.strip(): return ""`
SummaryBlankTest ==
    /\ sum_pc = "called"
    /\ IF IsBlank(sum_text)
       THEN /\ sum_result' = Returned(<<>>)
            /\ sum_pc' = "done"
       ELSE /\ sum_pc' = "model"
            /\ UNCHANGED sum_result
    /\ UNCHANGED <<sum_text, sum_model_calls, sum_log>>
    /\ UNCHANGED <<an_pc, an_doc, an_entities, an_keywords>>
    /\ UNCHANGED <<cvars, pvars, lvars, hvars, ovars, evars>>

\* A bug generate_summary could have: the except clause re-raises.
SummaryModelCall_reraises ==
    /\ sum_pc = "model"
    /\ \E outcome \in ModelOutcomes :
        /\ sum_model_calls' =
               Append(sum_model_calls, [prompt |-> Truncated(sum_text), outcome |-> outcome])
        /\ sum_result' = IF outcome.kind = "reply" THEN Returned(Strip(outcome.content))
                      ELSE Raised
    /\ sum_pc' = "done"
    /\ UNCHANGED <<sum_text, sum_log>>
    /\ UNCHANGED <<an_pc, an_doc, an_entities, an_keywords>>
    /\ UNCHANGED <<cvars, pvars, lvars, hvars, ovars, evars>>

\* the model call on the truncated text and the reading of
\* response.choices[0].message.content.strip(); every exception gives the failure
\* string
SummaryModelCall ==
    /\ sum_pc = "model"
    /\ \E outcome \in ModelOutcomes :
        /\ sum_model_calls' =
               Append(sum_model_calls, [prompt |-> Truncated(sum_text), outcome |-> outcome])
        /\ sum_result' = IF outcome.kind = "reply" THEN Returned(Strip(outcome.content))
                      ELSE Returned(SummaryFailedText)
    /\ sum_pc' = "done"
    /\ UNCHANGED <<sum_text, sum_log>>
    /\ UNCHANGED <<an_pc, an_doc, an_entities, an_keywords>>
    /\ UNCHANGED <<cvars, pvars, lvars, hvars, ovars, evars>>

NextSummary == SummaryRequest \/ SummaryBlankTest \/ SummaryModelCall

InitSummary ==
    /\ InitClassifyVars
    /\ InitPipelineVars
    /\ InitCallLog
    /\ InitChatVars
    /\ InitPdfCall /\ pdf_pages = <<>>
    /\ InitExtractCall /\ ex_request = NoExtractRequest
    /\ InitNlpCalls

SpecSummary == InitSummary /\ [][NextSummary]_vars

(* Properties of generate_summary (specification SpecSummary).             *)

\* C22: generate_summary on an empty or whitespace-only text returns the empty
\* string and does not invoke the generative model.
C22_BlankTextNoModelCall ==
    IsBlank(sum_text)
        => /\ sum_model_calls = <<>>
           /\ sum_pc = "done" => sum_result = Returned(<<>>)

C22_Witness ==
    /\ sum_pc = "done"
    /\ sum_text = <<"\n", "\t", " ">>
    /\ sum_result = Returned(<<>>)

\* the model call of this generate_summary call, or the reading of its response,
\* failed
SummaryModelFailed ==
    \E i \in 1..Len(sum_model_calls) : sum_model_calls[i].outcome.kind # "reply"

\* the model of this generate_summary call replied, and its reply, stripped, is
\* the failure string
ModelRepliedFailureText ==
    \E i \in 1..Len(sum_model_calls) :
        /\ sum_model_calls[i].outcome.kind = "reply"
        /\ Strip(sum_model_calls[i].outcome.content) = SummaryFailedText

\* C23 (as stated): generate_summary never raises, whatever the text and the
\* outcome of the model call (exception and malformed response included); it
\* returns the string 'Summary generation failed' exactly when the model call or
\* the reading of its response failed.
C23_FailureStringIffFailed ==
    /\ \A i \in 1..Len(sum_log) : ~sum_log[i].raised
    /\ sum_pc = "done"
           => /\ ~sum_result[1].raised
              /\ sum_result[1].text = SummaryFailedText <=> SummaryModelFailed

\* C23: generate_summary never raises, whatever the text and the outcome of the
\* model call (exception and malformed response included); it returns the string
\* 'Summary generation failed' whenever the model call or the reading of its
\* response failed, and otherwise only when that string is the model's own reply.
C23_SummaryFailsSoft ==
    /\ \A i \in 1..Len(sum_log) : ~sum_log[i].raised
    /\ sum_pc = "done"
           => /\ ~sum_result[1].raised
              /\ SummaryModelFailed => sum_result[1].text = SummaryFailedText
              /\ sum_result[1].text = SummaryFailedText
                     => SummaryModelFailed \/ ModelRepliedFailureText

\* the failure string returned by a call whose model call succeeded, after a
\* call that returned a summary
C23_Witness ==
    /\ sum_pc = "done"
    /\ Len(sum_model_calls) = 1
    /\ sum_model_calls[1].outcome.kind = "reply"
    /\ sum_model_calls[1].outcome.content = SummaryFailedText \o <<"\n">>
    /\ sum_result = Returned(SummaryFailedText)
    /\ \E i \in 1..Len(sum_log) : sum_log[i].text = <<"o", "k">>

----------------------------------------------------------------------------
(* NLPService.analyze_text: entities and keywords of the parsed document.  *)

MaxTokens == 3
MaxEnts == 2

KeywordLimit == 10

\* tokens of a parsed document
Token(lemma, pos, is_stop, is_punct, text) ==
    [lemma |-> lemma, pos |-> pos, is_stop |-> is_stop, is_punct |-> is_punct, text |-> text]

TokenSamples ==
    {Token(<<"t", "a", "x">>, "NOUN", FALSE, FALSE, <<"t", "a", "x", "e", "s">>),
     Token(<<"T", "a", "x">>, "PROPN", FALSE, FALSE, <<"T", "a", "x">>),
     Token(<<"d", "u", "e">>, "ADJ", FALSE, FALSE, <<"d", "u", "e">>),
     Token(<<"t", "h", "e">>, "DET", TRUE, FALSE, <<"t", "h", "e">>),
     Token(<<"i", "d">>, "NOUN", FALSE, FALSE, <<"i", "d">>)}

\* a noun whose lemma is k followed by one letter
Noun(letter) == Token(<<"k", letter>>, "NOUN", FALSE, FALSE, <<"k", letter, "s">>)

TwelveNouns == [i \in 1..12 |-> Noun(LowerChars[i])]

\* documents with more distinct lemmas than the keyword limit
LongTokenSeqs ==
    {TwelveNouns,
     TwelveNouns \o <<Noun("l"), Noun("k"), Noun("l"),
                      Token(<<"p", "a", "y">>, "VERB", FALSE, FALSE, <<"p", "a", "y", "s">>),
                      Token(<<"...">>, "NOUN", FALSE, TRUE, <<".", ".", ".">>),
                      Token(<<"o", "w", "n">>, "ADJ", TRUE, FALSE, <<"o", "w", "n">>)>>}

\* a document whose lemmas have cased characters outside ASCII
CasedTokenSeqs ==
    {<<Token(<<"U+00C9", "c", "o", "l", "e">>, "PROPN", FALSE, FALSE,
             <<"U+00C9", "c", "o", "l", "e">>),
       Token(<<"U+00E9", "c", "o", "l", "e">>, "NOUN", FALSE, FALSE,
             <<"U+00E9", "c", "o", "l", "e", "s">>),
       Token(<<"U+0130", "s", "t", "a", "n", "b", "u", "l">>, "PROPN", FALSE, FALSE,
             <<"U+0130", "s", "t", "a", "n", "b", "u", "l">>),
       Token(<<"U+039F", "U+0394", "U+039F", "U+03A3">>, "NOUN", FALSE, FALSE,
             <<"U+039F", "U+0394", "U+039F", "U+03A3">>),
       Token(<<"M", "A", "R", "U+212A", "E", "T">>, "NOUN", FALSE, FALSE,
             <<"M", "A", "R", "U+212A", "E", "T">>)>>}

RECURSIVE SeqsUpTo(_, _)
SeqsUpTo(S, n) ==
    IF n = 0 THEN {<<>>}
    ELSE LET shorter == SeqsUpTo(S, n - 1)
         IN  shorter \cup {Append(s, x) : s \in shorter, x \in S}

TokenSeqs == SeqsUpTo(TokenSamples, MaxTokens) \cup LongTokenSeqs \cup CasedTokenSeqs

\* entity spans of a parsed document
EntSamples ==
    {[label |-> "ORG", text |-> <<" ", "A">>], [label |-> "ORG", text |-> <<"A">>],
     [label |-> "PERSON", text |-> <<"A">>], [label |-> "ORG", text |-> <<"B">>]}

EntSeqs == SeqsUpTo(EntSamples, MaxEnts)

\* the position of a label among the keys of the entities dict, 0 if absent
KeyIndex(entities, label) ==
    IF \E i \in 1..Len(entities) : entities[i].label = label
    THEN CHOOSE i \in 1..Len(entities) : entities[i].label = label
    ELSE 0

InSeq(x, s) == \E i \in 1..Len(s) : s[i] = x

\* one turn of the loop of _extract_entities
AddEntity(entities, ent) ==
    LET entity_text == Strip(ent.text)
        with_key == IF KeyIndex(entities, ent.label) = 0
                    THEN Append(entities, [label |-> ent.label, texts |-> <<>>])
                    ELSE entities
        k == KeyIndex(with_key, ent.label)
    IN  IF InSeq(entity_text, with_key[k].texts) THEN with_key
        ELSE [with_key EXCEPT ![k].texts = Append(@, entity_text)]

\* _extract_entities: the dict as the sequence of its items in insertion order
RECURSIVE extract_entities(_)
extract_entities(ents) ==
    IF ents = <<>> THEN <<>>
    ELSE AddEntity(extract_entities(SubSeq(ents, 1, Len(ents) - 1)), ents[Len(ents)])

\* the condition of the comprehension in _extract_keywords
IsCandidate(token) ==
    /\ token.pos \in {"NOUN", "PROPN", "ADJ"}
    /\ ~token.is_stop
    /\ ~token.is_punct
    /\ Len(token.text) > 2

filtered_tokens(tokens) ==
    LET kept == SelectSeq(tokens, IsCandidate)
    IN  [i \in 1..Len(kept) |-> lower(kept[i].lemma)]

\* the number of occurrences of x in s
Freq(x, s) == Cardinality({i \in 1..Len(s) : s[i] = x})

\* the first position of x in s
FirstPos(x, s) == CHOOSE i \in 1..Len(s) : s[i] = x /\ \A j \in 1..(i - 1) : s[j] # x

\* the keys of Counter(s): the elements of s in the order of their first occurrence
RECURSIVE CounterKeys(_)
CounterKeys(s) ==
    IF s = <<>> THEN <<>>
    ELSE LET before == CounterKeys(SubSeq(s, 1, Len(s) - 1))
         IN  IF InSeq(s[Len(s)], before) THEN before ELSE Append(before, s[Len(s)])

\* A bug _extract_keywords could have: the keys are not ranked by their count.
most_common_unranked(s, n) == Take(CounterKeys(s), n)

\* Counter(s).most_common(n): the keys sorted by count, greatest first, the sort
\* being stable, cut to n
most_common(s, n) ==
    LET keys == CounterKeys(s)
        Before(i, j) == \/ Freq(keys[i], s) > Freq(keys[j], s)
                        \/ Freq(keys[i], s) = Freq(keys[j], s) /\ i < j
        Rank(i) == 1 + Cardinality({j \in 1..Len(keys) : Before(j, i)})
        sorted == [r \in 1..Len(keys) |-> keys[CHOOSE i \in 1..Len(keys) : Rank(i) = r]]
    IN  Take(sorted, n)

extract_keywords(tokens) == most_common(filtered_tokens(tokens), KeywordLimit)

\* entities = self._extract_entities(doc)
ExtractEntities ==
    /\ an_pc = "idle"
    /\ an_entities' = extract_entities(an_doc.ents)
    /\ an_pc' = "entities"
    /\ UNCHANGED <<an_doc, an_keywords>>
    /\ UNCHANGED <<sum_pc, sum_text, sum_model_calls, sum_result, sum_log>>
    /\ UNCHANGED <<cvars, pvars, lvars, hvars, ovars, evars>>

\* keywords = self._extract_keywords(doc)
ExtractKeywords ==
    /\ an_pc = "entities"
    /\ an_keywords' = extract_keywords(an_doc.tokens)
    /\ an_pc' = "done"
    /\ UNCHANGED <<an_doc, an_entities>>
    /\ UNCHANGED <<sum_pc, sum_text, sum_model_calls, sum_result, sum_log>>
    /\ UNCHANGED <<cvars, pvars, lvars, hvars, ovars, evars>>

NextAnalyze == ExtractEntities \/ ExtractKeywords

\* analyze_text on a document as the language model parsed it
InitAnalyze ==
    /\ InitClassifyVars
    /\ InitPipelineVars
    /\ InitCallLog
    /\ InitChatVars
    /\ InitPdfCall /\ pdf_pages = <<>>
    /\ InitExtractCall /\ ex_request = NoExtractRequest
    /\ InitSummaryCall /\ sum_text = <<>>
    /\ InitAnalyzeCall
    /\ an_doc \in [ents : EntSeqs, tokens : TokenSeqs]

SpecAnalyze == InitAnalyze /\ [][NextAnalyze]_vars

(* Properties of analyze_text (specification SpecAnalyze).                 *)

\* the lemmas _extract_keywords counts
Lemmas == filtered_tokens(an_doc.tokens)

\* keyword x is ranked before keyword y
RankedBefore(x, y, lemmas) ==
    \/ Freq(x, lemmas) > Freq(y, lemmas)
    \/ Freq(x, lemmas) = Freq(y, lemmas) /\ FirstPos(x, lemmas) < FirstPos(y, lemmas)

\* at most 10 distinct lemmas, by frequency descending, ties in first-occurrence
\* order, and no lemma left out that ranks before a listed one
KeywordsRanked(keywords, lemmas) ==
    /\ Len(keywords) <= 10
    /\ \A i \in 1..Len(keywords) : InSeq(keywords[i], lemmas)
    /\ \A i, j \in 1..Len(keywords) : i < j => RankedBefore(keywords[i], keywords[j], lemmas)
    /\ \A k \in 1..Len(lemmas) :
           ~InSeq(lemmas[k], keywords)
               => /\ Len(keywords) = 10
                  /\ RankedBefore(keywords[10], lemmas[k], lemmas)

\* the first span of the document with this label and, stripped, this text
FirstSeen(label, text, ents) ==
    CHOOSE i \in 1..Len(ents) :
        /\ ents[i].label = label /\ Strip(ents[i].text) = text
        /\ \A j \in 1..(i - 1) : ~(ents[j].label = label /\ Strip(ents[j].text) = text)

\* one entry per entity type, no string twice in an entry, strings in first-seen
\* order, and every span of the document in its entry
EntitiesDistinct(entities, ents) ==
    /\ \A i, j \in 1..Len(entities) : i # j => entities[i].label # entities[j].label
    /\ \A i \in 1..Len(entities) :
        LET texts == entities[i].texts
        IN  /\ \A a, b \in 1..Len(texts) : a # b => texts[a] # texts[b]
            /\ \A a \in 1..Len(texts) :
                   \E k \in 1..Len(ents) :
                       ents[k].label = entities[i].label /\ Strip(ents[k].text) = texts[a]
            /\ \A a, b \in 1..Len(texts) :
                   a < b => FirstSeen(entities[i].label, texts[a], ents)
                               < FirstSeen(entities[i].label, texts[b], ents)
    /\ \A k \in 1..Len(ents) :
           \E i \in 1..Len(entities) :
               entities[i].label = ents[k].label /\ InSeq(Strip(ents[k].text), entities[i].texts)

\* C24: for every sequence of entity spans and tokens, analyze_text returns a
\* keyword list of at most 10 distinct lemmas ranked by frequency descending with
\* ties in first-occurrence order, and an entities mapping in which no string
\* occurs twice under the same entity type and strings keep first-seen order.
C24_AnalysisInvariants ==
    /\ an_pc = "done" => LET lemmas == Lemmas IN KeywordsRanked(an_keywords, lemmas)
    /\ an_pc \in {"entities", "done"} => EntitiesDistinct(an_entities, an_doc.ents)

\* more than ten lemmas with a tie at the cut, and a repeated entity string
C24_Witness ==
    /\ an_pc = "done"
    /\ Len(an_keywords) = 10
    /\ an_keywords[1] = <<"k", "l">>
    /\ an_keywords[2] = <<"k", "k">>
    /\ an_keywords[3] = <<"k", "a">>
    /\ an_doc.ents = <<[label |-> "ORG", text |-> <<" ", "A">>], [label |-> "ORG", text |-> <<"A">>]>>
    /\ an_entities = <<[label |-> "ORG", texts |-> <<<<"A">>>>]>>

----------------------------------------------------------------------------
(* Order, concurrency and outcome of process_document (specification Spec). *)

\* C25: in every run the vector-store index write completes before the document
\* record is updated to 'processed': no run has issued that update while its index
\* write is outstanding or not attempted.
C25_IndexBeforeProcessed ==
    \A p \in Runs : Issued(p, "update") => HasCall(p, "index", "ok")

\* the request of run p has arrived and is not answered yet
InProgress(p) == pc[p] \notin {"idle", "done"}

\* the runs on document d whose vector-store write succeeded
IndexedBy(d) == {p \in Runs : document_id[p] = d /\ HasCall(p, "index", "ok")}

\* C27: concurrent runs on one document id are unguarded: a run in progress never
\* waits for another one, and every successful vector-store write leaves its own
\* object, so two runs of one document leave two objects with that document_id.
C27_UnguardedReprocessing ==
    /\ \A p \in Runs :
           /\ (pc[p] = "update") => (ENABLED UpdateDocument(p))
           /\ (pc[p] = "index") => (ENABLED IndexDocument(p))
           /\ (pc[p] = "except") => (ENABLED MarkError(p))
    /\ \A d \in DocIds : Len(ObjectsOf(d)) = Cardinality(IndexedBy(d))

\* two overlapping runs of one document have both written to the vector store
C27_Witness ==
    \E p, q \in Runs :
        /\ p # q /\ document_id[p] = document_id[q]
        /\ HasCall(p, "index", "ok") /\ HasCall(q, "index", "ok")
        /\ Len(ObjectsOf(document_id[p])) = 2

\* one run has overwritten the 'processed' status of another with 'error'
C27_ProcessedOverwritten ==
    \E p, q \in Runs :
        /\ p # q /\ document_id[p] = document_id[q]
        /\ Finished(p) /\ response[p].status_code = 200
        /\ HasCall(p, "update", "applied")
        /\ HasCall(q, "extract", "raise") /\ HasCall(q, "error_update", "applied")
        /\ docs[document_id[p]].status = "error"

\* C28: a run answers 'completed' only if the document store accepted its update
\* to 'processed' and its vector-store write succeeded.
C28_CompletedImpliesPersisted ==
    \A p \in Runs :
        (Finished(p) /\ response[p].status_code = 200)
            => /\ HasCall(p, "update", "applied")
               /\ HasCall(p, "index", "ok")

\* C29: a run whose fetch of the record, or whose file download, is answered with
\* a non-200 status answers 404, runs no extraction or analysis stage and issues
\* no update against the document record.
C29_UnknownDocument ==
    \A p \in Runs :
        (Finished(p) /\ (HasCall(p, "fetch", "status") \/ HasCall(p, "download", "status")))
            => /\ response[p].status_code = 404
               /\ ~Issued(p, "extract") /\ ~Issued(p, "analyze")
               /\ ~Issued(p, "update") /\ ~Issued(p, "error_update")

----------------------------------------------------------------------------
(* Termination of process_document (specification SpecLive).               *)

\* the positions of a run
Stages ==
    {"idle", "fetch", "download", "extract", "analyze", "classify", "summary", "update",
     "index", "except", "done"}

\* run p, in progress, moves on to another position: its steps of Next after Request(p)
Advance(p) ==
    /\ InProgress(p)
    /\ \E stage \in Stages \ {pc[p]} : pc' = [pc EXCEPT ![p] = stage]

\* every external call returns or raises, and the event loop resumes every run whose
\* awaited call has done so: a run in progress takes its next step
SpecLive == Init /\ [][Next]_vars /\ \A p \in Runs : WF_pc(Advance(p))

\* no external call is issued twice by a run
NoRetry(p) ==
    \A i, j \in 1..Len(trace[p]) : i # j => trace[p][i][1] # trace[p][j][1]

\* the caller has the 'completed' response or the failure response
Answered(p) ==
    \/ response[p].status_code = 200 /\ response[p].status = "completed"
    \/ response[p].status_code = 500

\* C30: every run terminates with exactly one outcome, a 'completed' response or
\* a failure response, provided every external call returns or raises; no stage is
\* retried, and the response once given does not change.
C30_RunTerminates ==
    /\ \A p \in Runs : (pc[p] = "fetch") ~> Finished(p)
    /\ [](\A p \in Runs : /\ NoRetry(p)
                          /\ Finished(p) <=> response[p] # NoResponse
                          /\ Finished(p) => Answered(p))
    /\ [][\A p \in Runs : Finished(p) => (Finished(p)' /\ response'[p] = response[p])]_vars

\* one run has ended with 'completed' and another with the failure response
C30_Witness ==
    \E p, q \in Runs :
        /\ Finished(p) /\ response[p].status_code = 200
        /\ Finished(q) /\ response[q].status_code = 500
====
